---- MODULE Spec2Model ----
(***************************************************************************)
(* Model of the question/answer ingestion core of the quiz applications:   *)
(*   src/molsejt/qa_utils.py            (variant "molsejt")                *)
(*   src/orvosi_kemai/qa_utils_kemia.py (variant "kemia", lenient)         *)
(*   src/orvosi_kemia1/qa_utils_kemia1.py (variant "kemia1")               *)
(* A Python str is a sequence of one-character strings, so that strip,     *)
(* split and the regular expressions are computed character by character.  *)
(***************************************************************************)
EXTENDS Integers, Sequences, FiniteSets, TLC

VARIABLES
    cell,       \* segmenter: the raw answer cell handed to _answers_from_cell
    variant,    \* which of the three qa_utils modules ran ("none" before)
    alts,       \* segmenter: the returned list of alternatives
    segpc,      \* segmenter: "idle" (not used), "start", "done"
    qa_keys,    \* round selector: list(qa.keys()), insertion order
    n,          \* round selector: the requested count
    pool,       \* round selector: random.sample's working pool
    round,      \* round selector: the result built so far
    rpc,        \* round selector: "idle", "start", "sampling", "returned", "ValueError"
    seed,       \* seeded selection: <<>> for seed=None, <<s>> for the seed s
    rng,        \* seeded selection: generator state, <<>> or <<seed, draws made>>
    outputs,    \* seeded selection: what the generator gave in each state met
    prev,       \* seeded selection: <<>> or the call made before this one
    theme_number,  \* load_questions: the theme asked for, a string of digits
    question_list, \* load_questions: the returned list of questions
    qa_map,        \* load_questions: the returned map question -> answers
    qid_map,       \* load_questions: the returned map question -> identifier
    lpc,           \* load_questions: "idle", "start", "returned", or how it ended
    app,           \* quiz session: which app runs ("none" outside a session)
    kor_kerdesei,  \* quiz session: st.session_state.kor_kerdesei / .kerdesek
    show_answer,   \* quiz session: st.session_state.show_answer
    itel,          \* quiz session: st.session_state.itel / .mark
    osszegzes,     \* quiz session: st.session_state.osszegzes / .summary, <<>> for None
    radio,         \* quiz session: the values the rendered radio widgets keep, by index
    session_theme, \* quiz session: st.session_state["theme"] of biofizika, "" for None
    src_exists, \* ingest: path.exists()
    src_text,   \* ingest: the content of the source file
    dialect,    \* ingest: what _detect_csv_dialect returned
    rows,       \* ingest: list(reader), the rows the CSV reader produced
    qa,         \* ingest: the returned mapping, question -> list of answers
    qa_order,   \* ingest: the keys of qa in insertion order
    strategy,   \* ingest: which parser produced qa: "csv", "text" or "none"
    ipc         \* ingest: "idle", "start", "returned", or the exception raised

segvars == <<cell, alts, segpc>>

roundvars == <<qa_keys, n, pool, round, rpc>>

ingestvars == <<src_exists, src_text, dialect, rows, qa, qa_order, strategy, ipc>>

seedvars == <<seed, rng, outputs, prev>>

themevars == <<theme_number, question_list, qa_map, qid_map, lpc>>

quizvars == <<app, kor_kerdesei, show_answer, itel, osszegzes, radio, session_theme>>

vars == <<variant, segvars, roundvars, ingestvars, seedvars, themevars, quizvars>>

(***************************************************************************)
(* Python str primitives                                                   *)
(***************************************************************************)

\* str.isspace() for the characters the model can express (\s of re)
Whitespace == {" ", "\n", "\t", "\r"}

IsSpace(c) == c \in Whitespace

SetMin(S) == CHOOSE x \in S : \A y \in S : x <= y

SetMax(S) == CHOOSE x \in S : \A y \in S : x >= y

\* s.strip(chars): drop leading and trailing characters of the set cs
StripChars(s, cs) ==
    LET keep == {i \in 1..Len(s) : s[i] \notin cs}
    IN  IF keep = {} THEN <<>> ELSE SubSeq(s, SetMin(keep), SetMax(keep))

\* s.strip()
Strip(s) == StripChars(s, Whitespace)

\* s.rstrip()
RStrip(s) ==
    LET keep == {i \in 1..Len(s) : ~IsSpace(s[i])}
    IN  IF keep = {} THEN <<>> ELSE SubSeq(s, 1, SetMax(keep))

\* s.lstrip()
LStrip(s) ==
    LET keep == {i \in 1..Len(s) : ~IsSpace(s[i])}
    IN  IF keep = {} THEN <<>> ELSE SubSeq(s, SetMin(keep), Len(s))

\* str.lower() on one character
LowerChar(c) ==
    CASE c = "A" -> "a"
      [] c = "B" -> "b"
      [] c = "C" -> "c"
      [] c = "D" -> "d"
      [] c = "H" -> "h"
      [] c = "L" -> "l"
      [] c = "O" -> "o"
      [] c = "Q" -> "q"
      [] OTHER -> c

\* s.lower()
Lower(s) == [i \in 1..Len(s) |-> LowerChar(s[i])]

\* s.replace("\r\n", "\n"): every "\r" that a "\n" follows is dropped
ReplaceCRLF(s) ==
    LET dropped == {i \in 1..(Len(s) - 1) : s[i] = "\r" /\ s[i + 1] = "\n"}
        before(i) == Cardinality({j \in dropped : j < i})
        pos(k) == CHOOSE i \in (1..Len(s)) \ dropped : i - before(i) = k
    IN  IF dropped = {} THEN s
        ELSE [k \in 1..(Len(s) - Cardinality(dropped)) |-> s[pos(k)]]

\* s.replace("\r", "\n")
ReplaceCR(s) == [i \in 1..Len(s) |-> IF s[i] = "\r" THEN "\n" ELSE s[i]]

\* cell.replace("\r\n", "\n").replace("\r", "\n").strip()
NormalizeCell(s) == Strip(ReplaceCR(ReplaceCRLF(s)))

RECURSIVE SplitOn(_, _)
\* s.split(sep) / re.split("[...]", s): every separator cuts, empty parts kept
SplitOn(s, seps) ==
    LET hits == {i \in 1..Len(s) : s[i] \in seps}
    IN  IF hits = {} THEN <<s>>
        ELSE LET i == SetMin(hits)
             IN  <<SubSeq(s, 1, i - 1)>> \o SplitOn(SubSeq(s, i + 1, Len(s)), seps)

\* s.splitlines() of a text whose line ends are already "\n"
SplitLines(s) ==
    IF s = <<>> THEN <<>>
    ELSE LET parts == SplitOn(s, {"\n"})
         IN  IF parts[Len(parts)] = <<>> THEN SubSeq(parts, 1, Len(parts) - 1)
             ELSE parts

RECURSIVE JoinLines(_)
\* "\n".join(lines)
JoinLines(lines) ==
    IF lines = <<>> THEN <<>>
    ELSE IF Len(lines) = 1 THEN lines[1]
    ELSE lines[1] \o <<"\n">> \o JoinLines(Tail(lines))

(***************************************************************************)
(* The regular expressions of the segmenter                                *)
(***************************************************************************)

\* re.search(r"(?m)^\s*-\s+", txt): a hyphen followed by whitespace and
\* preceded, back to some line start, by whitespace only (\s also matches "\n")
bullet_search(txt) ==
    \E i \in 1..(Len(txt) - 1) :
        /\ txt[i] = "-"
        /\ IsSpace(txt[i + 1])
        /\ \E p \in 1..i :
              /\ (p = 1 \/ txt[p - 1] = "\n")
              /\ \A j \in p..(i - 1) : IsSpace(txt[j])

\* index of the first non-whitespace character of ln, 0 if there is none
FirstNonSpace(ln) ==
    LET keep == {i \in 1..Len(ln) : ~IsSpace(ln[i])}
    IN  IF keep = {} THEN 0 ELSE SetMin(keep)

\* re.match(r"^\s*-\s+(.*)", ln) is not None, for one line ln
bullet_match(ln) ==
    LET i == FirstNonSpace(ln)
    IN  /\ i > 0
        /\ i < Len(ln)
        /\ ln[i] = "-"
        /\ IsSpace(ln[i + 1])

\* m.group(1) of that match: what follows the hyphen and its whitespace
bullet_group1(ln) == LStrip(SubSeq(ln, FirstNonSpace(ln) + 1, Len(ln)))

\* start positions of matches of r"\s-\s+" in s
HyphenHits(s) ==
    {i \in 1..(Len(s) - 2) : IsSpace(s[i]) /\ s[i + 1] = "-" /\ IsSpace(s[i + 2])}

\* re.search(r"\s-\s+", s)
hyphen_search(s) == HyphenHits(s) # {}

RECURSIVE hyphen_split(_)
\* re.split(r"\s-\s+", s): leftmost matches, \s+ greedy, scanned left to right
hyphen_split(s) ==
    IF HyphenHits(s) = {} THEN <<s>>
    ELSE LET i == SetMin(HyphenHits(s))
             rest == SubSeq(s, i + 2, Len(s))
         IN  <<SubSeq(s, 1, i - 1)>> \o hyphen_split(LStrip(rest))


(***************************************************************************)
(* Answer Segmenter: _answers_from_cell in its three variants              *)
(***************************************************************************)

\* "\n".join(current).rstrip(), appended to answers when current is non-empty
FlushBlock(answers, current) ==
    IF current # <<>> THEN Append(answers, RStrip(JoinLines(current))) ELSE answers

RECURSIVE scan_lines_lead(_, _, _, _)
\* mutant of scan_lines: the lines ahead of the first bullet are collected too
scan_lines_lead(lines, answers, current, in_bullet) ==
    IF lines = <<>> THEN FlushBlock(answers, current)
    ELSE LET ln == Head(lines)
         IN  IF bullet_match(ln)
             THEN scan_lines_lead(Tail(lines), FlushBlock(answers, current),
                                  <<bullet_group1(ln)>>, TRUE)
             ELSE scan_lines_lead(Tail(lines), answers,
                                  Append(current, RStrip(ln)), in_bullet)

RECURSIVE scan_lines_strip(_, _, _, _)
\* mutant of scan_lines: continuation lines are stripped on both sides
scan_lines_strip(lines, answers, current, in_bullet) ==
    IF lines = <<>> THEN FlushBlock(answers, current)
    ELSE LET ln == Head(lines)
         IN  IF bullet_match(ln)
             THEN scan_lines_strip(Tail(lines), FlushBlock(answers, current),
                                   <<bullet_group1(ln)>>, TRUE)
             ELSE scan_lines_strip(Tail(lines), answers,
                                   IF in_bullet THEN Append(current, Strip(ln))
                                   ELSE current,
                                   in_bullet)

RECURSIVE scan_lines(_, _, _, _)
\* the "for ln in lines" loop and the final flush of the bullet scan
scan_lines(lines, answers, current, in_bullet) ==
    IF lines = <<>> THEN FlushBlock(answers, current)
    ELSE LET ln == Head(lines)
         IN  IF bullet_match(ln)
             THEN scan_lines(Tail(lines), FlushBlock(answers, current),
                             <<bullet_group1(ln)>>, TRUE)
             ELSE scan_lines(Tail(lines), answers,
                             IF in_bullet THEN Append(current, RStrip(ln)) ELSE current,
                             in_bullet)

\* [a for a in answers if a.strip()]
DropBlank(answers) == SelectSeq(answers, LAMBDA a : Strip(a) # <<>>)

RECURSIVE SplitEach(_)
\* every block cut further at its semicolons
SplitEach(blocks) ==
    IF blocks = <<>> THEN <<>>
    ELSE SplitOn(Head(blocks), {";"}) \o SplitEach(Tail(blocks))

\* mutant of bullet_blocks: the blocks are cut further at semicolons
bullet_blocks_split(txt) ==
    SplitEach(DropBlank(scan_lines(SplitLines(txt), <<>>, <<>>, FALSE)))

\* the body of the bullet branch: split into lines, scan, drop blank blocks
bullet_blocks(txt) == DropBlank(scan_lines(SplitLines(txt), <<>>, <<>>, FALSE))

\* molsejt: _split_line_bullets_multiline(text)
split_line_bullets_multiline(text) ==
    IF Strip(text) = <<>> THEN <<>>
    ELSE IF ~bullet_search(text) THEN <<>>
    ELSE bullet_blocks(text)

\* [p.strip(chars) for p in parts if p.strip(chars)]
StripParts(parts, cs) ==
    LET stripped == [i \in 1..Len(parts) |-> StripChars(parts[i], cs)]
    IN  SelectSeq(stripped, LAMBDA p : p # <<>>)

\* mutant of split_inline_hyphen_semicolon: the ';' branch is missing
split_inline_hyphen_only(text) ==
    LET s == Strip(text)
    IN  IF s = <<>> THEN <<>>
        ELSE IF hyphen_search(s) THEN StripParts(hyphen_split(s), {" ", ";"})
        ELSE <<s>>

\* molsejt: _split_inline_hyphen_semicolon(text)
split_inline_hyphen_semicolon(text) ==
    LET s == Strip(text)
    IN  IF s = <<>> THEN <<>>
        ELSE IF hyphen_search(s) THEN StripParts(hyphen_split(s), {" ", ";"})
        ELSE IF \E i \in 1..Len(s) : s[i] = ";"
             THEN StripParts(SplitOn(s, {";"}), Whitespace)
        ELSE <<s>>

\* molsejt: _answers_from_cell(cell)
answers_from_cell_molsejt(c) ==
    LET txt == NormalizeCell(c)
        bullets == split_line_bullets_multiline(txt)
        inline == split_inline_hyphen_semicolon(txt)
    IN  IF bullets # <<>> THEN bullets
        ELSE IF inline # <<>> THEN inline
        ELSE IF txt # <<>> THEN <<txt>> ELSE <<>>

\* mutant of inline_rules_kemia: the split class also holds the forward slash
inline_rules_kemia_slash(txt) ==
    IF hyphen_search(txt)
    THEN StripParts(DropBlank(hyphen_split(txt)), {" ", ",", ";"})
    ELSE IF \E i \in 1..Len(txt) : txt[i] \in {";", ",", "/"}
         THEN StripParts(SplitOn(txt, {";", ",", "/"}), Whitespace)
    ELSE IF txt # <<>> THEN <<txt>> ELSE <<>>

\* kemia: the inline rules after the bullet branch
inline_rules_kemia(txt) ==
    IF hyphen_search(txt)
    THEN StripParts(DropBlank(hyphen_split(txt)), {" ", ",", ";"})
    ELSE IF \E i \in 1..Len(txt) : txt[i] \in {";", ","}
         THEN StripParts(SplitOn(txt, {";", ","}), Whitespace)
    ELSE IF txt # <<>> THEN <<txt>> ELSE <<>>

\* kemia: _answers_from_cell(cell); the bullet branch returns its own result
answers_from_cell_kemia(c) ==
    LET txt == NormalizeCell(c)
    IN  IF bullet_search(txt) THEN bullet_blocks(txt)
        ELSE inline_rules_kemia(txt)

\* kemia1: _answers_from_cell(cell); bullets or the whole cell
answers_from_cell_kemia1(c) ==
    LET txt == NormalizeCell(c)
    IN  IF txt = <<>> THEN <<>>
        ELSE IF bullet_search(txt) THEN bullet_blocks(txt)
        ELSE <<txt>>

Variants == {"molsejt", "kemia", "kemia1"}

\* _answers_from_cell of the module named by v
answers_from_cell(v, c) ==
    CASE v = "molsejt" -> answers_from_cell_molsejt(c)
      [] v = "kemia" -> answers_from_cell_kemia(c)
      [] v = "kemia1" -> answers_from_cell_kemia1(c)


(***************************************************************************)
(* Reading the source: csv.reader and csv.DictReader                       *)
(***************************************************************************)

NewLines == {"\n", "\r"}

\* the file object (opened with newline="") ends a line after "\n", after a
\* "\r" that no "\n" follows, and at the end of the file
EndsLine(text, i) ==
    \/ i = Len(text)
    \/ text[i] = "\n"
    \/ (text[i] = "\r" /\ text[i + 1] # "\n")

\* the reader before the first character
CsvStart == [mode |-> "START_RECORD", field |-> <<>>, fields |-> <<>>, out |-> <<>>]

\* parse_save_field, then the next state
SaveField(st, mode) ==
    [st EXCEPT !.fields = Append(@, st.field), !.field = <<>>, !.mode = mode]

\* parse_add_char, then the next state
AddChar(st, c, mode) == [st EXCEPT !.field = Append(@, c), !.mode = mode]

\* parse_process_char of the csv reader for one character c under dialect d
\* (quotechar '"', quoting minimal, no escapechar, not strict)
csv_process_char(st, c, d) ==
    LET m == IF st.mode = "START_RECORD" /\ c \notin NewLines
             THEN "START_FIELD" ELSE st.mode
    IN  CASE m = "START_RECORD" -> [st EXCEPT !.mode = "EAT_CRNL"]
          [] m = "START_FIELD" ->
                IF c \in NewLines THEN SaveField(st, "EAT_CRNL")
                ELSE IF c = "\"" THEN [st EXCEPT !.mode = "IN_QUOTED_FIELD"]
                ELSE IF c = " " /\ d.skipinitialspace
                     THEN [st EXCEPT !.mode = "START_FIELD"]
                ELSE IF c = d.delimiter THEN SaveField(st, "START_FIELD")
                ELSE AddChar(st, c, "IN_FIELD")
          [] m = "IN_FIELD" ->
                IF c \in NewLines THEN SaveField(st, "EAT_CRNL")
                ELSE IF c = d.delimiter THEN SaveField(st, "START_FIELD")
                ELSE AddChar(st, c, "IN_FIELD")
          [] m = "IN_QUOTED_FIELD" ->
                IF c = "\""
                THEN [st EXCEPT !.mode = IF d.doublequote
                                         THEN "QUOTE_IN_QUOTED_FIELD" ELSE "IN_FIELD"]
                ELSE AddChar(st, c, "IN_QUOTED_FIELD")
          [] m = "QUOTE_IN_QUOTED_FIELD" ->
                IF c = "\"" THEN AddChar(st, c, "IN_QUOTED_FIELD")
                ELSE IF c = d.delimiter THEN SaveField(st, "START_FIELD")
                ELSE IF c \in NewLines THEN SaveField(st, "EAT_CRNL")
                ELSE AddChar(st, c, "IN_FIELD")
          [] m = "EAT_CRNL" -> st

\* the record is complete: hand out the fields
EmitRecord(st) ==
    [st EXCEPT !.out = Append(@, st.fields), !.fields = <<>>, !.mode = "START_RECORD"]

\* parse_process_char(EOL) at the end of a line
csv_end_of_line(st) ==
    IF st.mode = "IN_QUOTED_FIELD" THEN st
    ELSE IF st.mode \in {"START_FIELD", "IN_FIELD", "QUOTE_IN_QUOTED_FIELD"}
         THEN EmitRecord(SaveField(st, "START_RECORD"))
    ELSE EmitRecord(st)

\* one character of the file: parse_process_char, and the end-of-line step
\* when the character is the last of its line
csv_step(text, i, st, d) ==
    LET after == csv_process_char(st, text[i], d)
    IN  IF EndsLine(text, i) THEN csv_end_of_line(after) ELSE after

\* the states of the reader (enum ParserState)
CsvModes ==
    {"START_RECORD", "START_FIELD", "IN_FIELD", "IN_QUOTED_FIELD",
     "QUOTE_IN_QUOTED_FIELD", "EAT_CRNL"}

RECURSIVE csv_scan(_, _, _, _, _)
\* the reader's state after the characters lo..hi of the file, read in order
\* from the state st (the range is halved to keep the evaluation shallow)
csv_scan(text, lo, hi, st, d) ==
    IF lo > hi THEN st
    ELSE IF lo = hi THEN csv_step(text, lo, st, d)
    ELSE LET mid == (lo + hi) \div 2
             left == csv_scan(text, lo, mid, st, d)
         IN  IF left.mode \in CsvModes THEN csv_scan(text, mid + 1, hi, left, d)
             ELSE left

\* list(csv.reader(f, dialect)): every row of the file, a list of fields each;
\* Reader_iternext saves a quoted field the file ends in
csv_reader(text, d) ==
    LET st == csv_scan(text, 1, Len(text), CsvStart, d)
    IN  IF st.mode = "IN_QUOTED_FIELD"
        THEN EmitRecord(SaveField(st, "START_RECORD")).out
        ELSE st.out

\* DictReader.fieldnames: the first row of the file
fieldnames_of(all) == IF all = <<>> THEN <<>> ELSE all[1]

\* list(csv.DictReader(f)): the rows after the first, empty rows skipped
dict_rows(all) ==
    IF all = <<>> THEN <<>> ELSE SelectSeq(Tail(all), LAMBDA r : r # <<>>)

\* a value that may be None
None == [some |-> FALSE, val |-> <<>>]

Some(v) == [some |-> TRUE, val |-> v]

\* row.get(key) of the dict DictReader builds from fieldnames and row: the last
\* field of that name; None (restval) when the row is too short for it
row_get(names, row, key) ==
    LET idx == {j \in 1..Len(names) : names[j] = key}
    IN  IF idx = {} \/ \E j \in idx : j > Len(row) THEN None
        ELSE Some(row[SetMax(idx)])

\* "x or ''"
OrEmpty(v) == IF v.some THEN v.val ELSE <<>>

\* _find_column(rows[0], *candidates): lower_map keeps, for each stripped and
\* lower-cased header, the last key of that spelling; the first candidate wins
find_column(names, candidates) ==
    LET firsts == {j \in 1..Len(names) : \A i \in 1..(j - 1) : names[i] # names[j]}
        hits(c) == {j \in firsts : Lower(Strip(names[j])) = c}
        found == {k \in 1..Len(candidates) : hits(candidates[k]) # {}}
    IN  IF found = {} THEN None
        ELSE Some(names[SetMax(hits(candidates[SetMin(found)]))])

(***************************************************************************)
(* The strict question pattern and the numbered-text parser                *)
(***************************************************************************)

Digits == {"0", "1", "2", "3", "4", "5", "6", "7", "8", "9"}

\* last index of the run of characters of cs that starts at i (i - 1 if none)
RunEnd(text, i, cs) ==
    LET stop == {j \in i..Len(text) : text[j] \notin cs}
    IN  IF stop = {} THEN Len(text) ELSE SetMin(stop) - 1

\* re.match(r"^\s*\d+\.\s+.+!\s*$", s): digits, a period, whitespace, at least
\* one character without a newline, and '!' as the last non-blank character
strict_match(s) ==
    LET t == Strip(s)
        d1 == RunEnd(t, 1, Digits)
    IN  /\ d1 >= 1
        /\ d1 + 3 <= Len(t)
        /\ t[d1 + 1] = "."
        /\ IsSpace(t[d1 + 2])
        /\ t[Len(t)] = "!"
        /\ \E j \in (d1 + 3)..(Len(t) - 1) :
              /\ \A i \in (d1 + 2)..(j - 1) : IsSpace(t[i])
              /\ \A i \in j..(Len(t) - 1) : t[i] # "\n"

\* _extract_question_strict(text): the first line if it has the strict form,
\* else the whole trimmed cell
extract_question_strict(text) ==
    LET s == Strip(text)
    IN  IF s = <<>> THEN s
        ELSE LET first_line == SplitLines(s)[1]
             IN  IF strict_match(first_line) THEN Strip(first_line) ELSE s

\* where "!\s*$" (multi-line) can end for the '!' at k: the end of the text if
\* only whitespace follows, else just before the last newline of the
\* whitespace after the '!'; 0 if neither
BangEnd(text, k) ==
    LET last == RunEnd(text, k + 1, Whitespace)
        before_nl == {e \in k..(last - 1) : text[e + 1] = "\n"}
    IN  IF last = Len(text) THEN Len(text)
        ELSE IF before_nl = {} THEN 0 ELSE SetMax(before_nl)

\* the '!' positions that can close a question starting at qs: no newline in
\* between, at least one character of question text
BangsFrom(text, qs) ==
    {k \in (qs + 1)..Len(text) :
        /\ text[k] = "!"
        /\ \A i \in qs..(k - 1) : text[i] # "\n"
        /\ BangEnd(text, k) # 0}

\* QUESTION_HEADER_RE tried at position p: "(?m)^\s*(\d+)\.\s+(?P<q>.+?)!\s*$".
\* \s+ takes the longest run that still lets the rest match, q the shortest.
header_match(text, p) ==
    LET d0 == RunEnd(text, p, Whitespace) + 1
        d1 == RunEnd(text, d0, Digits)
        w1 == RunEnd(text, d1 + 2, Whitespace)
        starts == {qs \in (d1 + 3)..(w1 + 1) : qs <= Len(text) /\ BangsFrom(text, qs) # {}}
        ok == /\ (p = 1 \/ text[p - 1] = "\n")
              /\ d1 >= d0
              /\ d1 + 2 <= Len(text)
              /\ text[d1 + 1] = "."
              /\ IsSpace(text[d1 + 2])
              /\ starts # {}
    IN  IF ~ok THEN [ok |-> FALSE, start |-> 0, end |-> 0, q |-> <<>>]
        ELSE LET qs == SetMax(starts)
                 k == SetMin(BangsFrom(text, qs))
             IN  [ok |-> TRUE, start |-> p, end |-> BangEnd(text, k),
                  q |-> SubSeq(text, qs, k - 1)]

RECURSIVE header_finditer(_, _)
\* list(QUESTION_HEADER_RE.finditer(text)), scanning from position pos
header_finditer(text, pos) ==
    LET ps == {p \in pos..Len(text) : header_match(text, p).ok}
    IN  IF ps = {} THEN <<>>
        ELSE LET m == header_match(text, SetMin(ps))
             IN  <<m>> \o header_finditer(text, m.end + 1)

\* a question set: the mapping and its keys in insertion order
EmptyQA == [map |-> <<>>, order |-> <<>>]

qa_set_first(q, key, value) ==
    IF key \in DOMAIN q.map THEN q
    ELSE [map |-> [x \in DOMAIN q.map \cup {key} |->
                      IF x = key THEN value ELSE q.map[x]],
          order |-> Append(q.order, key)]

\* qa[key] = value, on a dict that keeps insertion order
qa_set(q, key, value) ==
    IF key \in DOMAIN q.map
    THEN [q EXCEPT !.map = [x \in DOMAIN q.map |-> IF x = key THEN value ELSE q.map[x]]]
    ELSE [map |-> [x \in DOMAIN q.map \cup {key} |->
                      IF x = key THEN value ELSE q.map[x]],
          order |-> Append(q.order, key)]

\* the answers of one block of the numbered text, in the module v
block_answers(block, v) ==
    IF bullet_search(block) THEN answers_from_cell(v, block)
    ELSE IF Strip(block) # <<>> THEN <<Strip(block)>> ELSE <<>>

RECURSIVE numbered_blocks(_, _, _, _, _)
\* the loop of _parse_numbered_text_strict over the matches, from match i on
numbered_blocks(text, matches, i, q, v) ==
    IF i > Len(matches) THEN q
    ELSE LET m == matches[i]
             question_line == Append(Strip(m.q), "!")
             stop == IF i + 1 <= Len(matches) THEN matches[i + 1].start - 1
                     ELSE Len(text)
             block == SubSeq(text, m.end + 1, stop)
         IN  numbered_blocks(text, matches, i + 1,
                             qa_set(q, question_line, block_answers(block, v)), v)

\* _parse_numbered_text_strict(text) of the module v
parse_numbered_text_strict(text, v) ==
    numbered_blocks(text, header_finditer(text, 1), 1, EmptyQA, v)

\* path.read_text(encoding="utf-8-sig"): universal newlines
read_text(text) == ReplaceCR(ReplaceCRLF(text))

(***************************************************************************)
(* CSV Ingester: beolvas_csv_dict in its three variants                    *)
(***************************************************************************)

RECURSIVE uniq_scan(_, _, _)
\* the duplicate filter: "key = ans.strip().lower(); if key and key not in seen"
uniq_scan(merged, seen, uniq) ==
    IF merged = <<>> THEN uniq
    ELSE LET ans == Head(merged)
             key == Lower(Strip(ans))
         IN  IF key # <<>> /\ key \notin seen
             THEN uniq_scan(Tail(merged), seen \cup {key}, Append(uniq, Strip(ans)))
             ELSE uniq_scan(Tail(merged), seen, uniq)

\* uniq of the merged list
unique_answers(merged) == uniq_scan(merged, {}, <<>>)

merge_row_overwrite(q, question, answers) == qa_set(q, question, answers)

\* "if question in qa: ... qa[question] = uniq / else: qa[question] = answers"
merge_row(q, question, answers) ==
    IF question \in DOMAIN q.map
    THEN qa_set(q, question, unique_answers(q.map[question] \o answers))
    ELSE qa_set(q, question, answers)

\* what beolvas_csv_dict ends with: a returned mapping or a raised exception
Return(q, how, all) == [outcome |-> "returned", q |-> q, strategy |-> how, rows |-> all]

Raise(exc, all) == [outcome |-> exc, q |-> EmptyQA, strategy |-> "none", rows |-> all]

COL_QUESTION == <<"q", "u", "e", "s", "t", "i", "o", "n">>

COL_QUESTIONS == <<"q", "u", "e", "s", "t", "i", "o", "n", "s">>

COL_ANSWER == <<"a", "n", "s", "w", "e", "r">>

COL_ANSWERS == <<"a", "n", "s", "w", "e", "r", "s">>

RECURSIVE rows_molsejt_noskip(_, _, _, _, _, _)
rows_molsejt_noskip(names, data, i, q_col, a_col, q) ==
    IF i > Len(data) THEN q
    ELSE rows_molsejt_noskip(names, data, i + 1, q_col, a_col,
             merge_row(q, Strip(OrEmpty(row_get(names, data[i], q_col))),
                       answers_from_cell_molsejt(OrEmpty(row_get(names, data[i], a_col)))))

RECURSIVE rows_molsejt(_, _, _, _, _, _)
\* molsejt: the "for row in rows" loop, from row i on
rows_molsejt(names, data, i, q_col, a_col, q) ==
    IF i > Len(data) THEN q
    ELSE LET question == Strip(OrEmpty(row_get(names, data[i], q_col)))
             answer_raw == OrEmpty(row_get(names, data[i], a_col))
         IN  rows_molsejt(names, data, i + 1, q_col, a_col,
                          IF question = <<>> THEN q
                          ELSE merge_row(q, question,
                                         answers_from_cell_molsejt(answer_raw)))

\* molsejt: beolvas_csv_dict(filename), d being the dialect in use
beolvas_molsejt(exists, text, d) ==
    IF ~exists THEN Raise("FileNotFoundError", <<>>)
    ELSE LET all == csv_reader(text, d)
             names == fieldnames_of(all)
             data == dict_rows(all)
             q_col == find_column(names, <<COL_QUESTION, COL_QUESTIONS>>)
             a_col == find_column(names, <<COL_ANSWER, COL_ANSWERS>>)
         IN  IF data = <<>> THEN Raise("ValueError", all)
             ELSE IF ~q_col.some \/ ~a_col.some THEN Raise("KeyError", all)
             ELSE LET q == rows_molsejt(names, data, 1, q_col.val, a_col.val, EmptyQA)
                  IN  IF q.order = <<>> THEN Raise("ValueError", all)
                      ELSE Return(q, "csv", all)

\* mutant of text_fallback: the parse is returned even when it found nothing
text_fallback_unchecked(text, v, all) ==
    Return(parse_numbered_text_strict(read_text(text), v), "text", all)

\* the text fallback of the kemia modules: the numbered-text parse or ValueError
text_fallback(text, v, all) ==
    LET q == parse_numbered_text_strict(read_text(text), v)
    IN  IF q.order # <<>> THEN Return(q, "text", all) ELSE Raise("ValueError", all)

RECURSIVE rows_kemia(_, _, _, _, _, _)
\* kemia: the "for row in rows" loop, from row i on; a column that was not
\* found reads as ""
rows_kemia(names, data, i, q_col, a_col, q) ==
    IF i > Len(data) THEN q
    ELSE LET q_raw == IF q_col.some THEN row_get(names, data[i], q_col.val) ELSE Some(<<>>)
             a_raw == IF a_col.some THEN row_get(names, data[i], a_col.val) ELSE Some(<<>>)
             question == extract_question_strict(OrEmpty(q_raw))
             answers == IF a_raw.some THEN answers_from_cell_kemia(a_raw.val) ELSE <<>>
         IN  rows_kemia(names, data, i + 1, q_col, a_col,
                        IF ~strict_match(question) THEN q
                        ELSE merge_row(q, question, answers))

\* mutant of beolvas_kemia: the numbered-text parse is tried before the CSV parse
beolvas_kemia_text_first(exists, text, d) ==
    IF ~exists THEN Raise("FileNotFoundError", <<>>)
    ELSE LET all == csv_reader(text, d)
             names == fieldnames_of(all)
             data == dict_rows(all)
             q_col == find_column(names, <<COL_QUESTIONS, COL_QUESTION>>)
             a_col == find_column(names, <<COL_ANSWERS, COL_ANSWER>>)
             fb == parse_numbered_text_strict(read_text(text), "kemia")
         IN  IF fb.order # <<>> THEN Return(fb, "text", all)
             ELSE LET q == rows_kemia(names, data, 1, q_col, a_col, EmptyQA)
                  IN  IF q.order = <<>> THEN Raise("ValueError", all)
                      ELSE Return(q, "csv", all)

\* kemia: beolvas_csv_dict(filename), d being the dialect in use
beolvas_kemia(exists, text, d) ==
    IF ~exists THEN Raise("FileNotFoundError", <<>>)
    ELSE LET all == csv_reader(text, d)
             names == fieldnames_of(all)
             data == dict_rows(all)
             q_col == find_column(names, <<COL_QUESTIONS, COL_QUESTION>>)
             a_col == find_column(names, <<COL_ANSWERS, COL_ANSWER>>)
         IN  IF data = <<>> THEN text_fallback(text, "kemia", all)
             ELSE LET q == rows_kemia(names, data, 1, q_col, a_col, EmptyQA)
                  IN  IF q.order = <<>> THEN text_fallback(text, "kemia", all)
                      ELSE Return(q, "csv", all)

RECURSIVE JoinWith(_, _)
\* sep.join(parts)
JoinWith(parts, sep) ==
    IF parts = <<>> THEN <<>>
    ELSE IF Len(parts) = 1 THEN parts[1]
    ELSE parts[1] \o sep \o JoinWith(Tail(parts), sep)

\* kemia1: _parse_row_q_and_as(row): None, or the question line and its answers
parse_row_q_and_as(row) ==
    LET filled == {i \in 1..Len(row) : Strip(row[i]) # <<>>}
    IN  IF filled = {} THEN None
        ELSE LET first_idx == SetMin(filled)
                 first_cell == Strip(row[first_idx])
                 bangs == {i \in 1..Len(first_cell) : first_cell[i] = "!"}
             IN  IF bangs = {} THEN None
                 ELSE LET bang == SetMin(bangs)
                          q_part == SubSeq(first_cell, 1, bang - 1)
                          question_line == Strip(Append(Strip(q_part), "!"))
                          after1 == LStrip(SubSeq(first_cell, bang + 1, Len(first_cell)))
                          after_bang == IF after1 # <<>> /\ after1[1] = ","
                                        THEN LStrip(Tail(after1)) ELSE after1
                          rest == SubSeq(row, first_idx + 1, Len(row))
                          cells == [i \in 1..Len(rest) |-> Strip(rest[i])]
                          parts == (IF after_bang # <<>> THEN <<after_bang>> ELSE <<>>)
                                   \o SelectSeq(cells, LAMBDA c : c # <<>>)
                          answer_text == Strip(JoinWith(parts, <<" ">>))
                      IN  IF ~strict_match(question_line) THEN None
                          ELSE Some(<<question_line,
                                      unique_answers(answers_from_cell_kemia1(answer_text))>>)

RECURSIVE rows_kemia1(_, _, _)
\* kemia1: the "for row in reader" loop, from row i on
rows_kemia1(all, i, q) ==
    IF i > Len(all) THEN q
    ELSE LET parsed == parse_row_q_and_as(all[i])
         IN  rows_kemia1(all, i + 1,
                         IF ~parsed.some THEN q
                         ELSE merge_row(q, parsed.val[1], parsed.val[2]))

\* csv.reader(f, delimiter=","), and csv.DictReader(f) without a dialect: the
\* "excel" dialect
CommaDialect ==
    [delimiter |-> ",", skipinitialspace |-> FALSE, doublequote |-> TRUE,
     sniffed |-> FALSE]

beolvas_kemia1_unguarded(exists, text) ==
    LET all == csv_reader(text, CommaDialect)
        q == rows_kemia1(all, 1, EmptyQA)
    IN  IF q.order = <<>> THEN text_fallback(text, "kemia1", all)
        ELSE Return(q, "csv", all)

\* kemia1: beolvas_csv_dict(filename)
beolvas_kemia1(exists, text) ==
    IF ~exists THEN Raise("FileNotFoundError", <<>>)
    ELSE LET all == csv_reader(text, CommaDialect)
             q == rows_kemia1(all, 1, EmptyQA)
         IN  IF q.order = <<>> THEN text_fallback(text, "kemia1", all)
             ELSE Return(q, "csv", all)

(***************************************************************************)
(* Segmenter runs: a cell is drawn, one variant's _answers_from_cell runs  *)
(***************************************************************************)

\* longest cell enumerated character by character
MaxCellLen == 4

\* most lines of a cell put together from LineForms
MaxLines == 3

Alphabet == {"a", "b", " ", "-", ";", ",", "/", "\n"}

\* every string over Alphabet of at most MaxCellLen characters
CharCells == UNION {[1..k -> Alphabet] : k \in 0..MaxCellLen}

\* line shapes: bullets, bare hyphen, text, blank, indented, inline separators
LineForms == {
    <<"-", " ", "a">>,
    <<"-">>,
    <<"b">>,
    <<>>,
    <<" ", "b">>,
    <<"a", ";", " ", "b">>,
    <<"a", " ", "-", " ", "b">>,
    <<"a", ",", " ", "b">>,
    <<"a", "/", "b">>,
    <<"-", " ", "a", ";", " ", "b", "/", "a">>,
    <<" ", "-", " ", "b", " ", "-", " ", "a">>,
    <<"-", " ">>
}

\* cells of 1..MaxLines lines, each one of LineForms, joined by "\n"
LineCells ==
    UNION {{JoinLines(ls) : ls \in [1..k -> LineForms]} : k \in 1..MaxLines}

\* the cells of the documented examples, cells with "\r" and tab, cells with
\* separators next to an inline hyphen, and cells with text ahead of a bullet
ExampleCells == {
    <<"L", "u", "g", "o", "l", "-", "o", "l", "d", "a", "t", ";", " ", "j", "o", "d", " ", "o", "l", "d", "a", "t">>,
    <<"A", "g", "a", "r", "o", "z", " ", "g", "e", "l", ",", " ", "a", "g", "a", "r", "o", "z">>,
    <<"k", "e", "k", "/", "l", "i", "l", "a">>,
    <<"-", " ", "D", "-", "t", "e", "j", "s", "a", "v", ":", "\n", " ", " ", "C", "O", "O", "H", "\n", " ", " ", " ", " ", "|", "\n", " ", " ", " ", "H", "-", "C", "-", "O", "H", "\n", "-", " ", "L", "-", "t", "e", "j", "s", "a", "v">>,
    <<"a", "\r", "\n", "-", " ", "b", "\r", "-", " ", "a", ";", "b">>,
    <<"\t", "a", "\t", "-", "\t", "b", " ">>,
    <<"a", "\n", " ", "-", " ", "b">>,
    <<"-", " ", "a", " ", "\n", "\n", " ", " ", "b", "\n", "-", " ", "b">>,
    <<"a", ",", " ", "-", " ", "b">>,
    <<"a", "\t", " ", "-", " ", "b">>,
    <<"a", " ", "-", " ", ";", "\t", " ", "-", " ", "b">>,
    <<"a", ";", " ", "b", " ", "-", " ", "b", ",", " ", "a">>,
    <<"x", "\n", "-", " ", "a", "\n", " ", " ", "y", ";", "z", "\n", "-", " ", "b">>,
    <<"x", " ", "-", " ", "y", "\n", "-", " ", "a", "\n", "b", ",", " ", "c">>
}

SegCells == CharCells \cup LineCells \cup ExampleCells

RoundIdle ==
    /\ qa_keys = <<>> /\ n = 0 /\ pool = <<>> /\ round = <<>> /\ rpc = "idle"

NoDialect == CommaDialect

IngestIdle ==
    /\ src_exists = FALSE /\ src_text = <<>> /\ dialect = NoDialect
    /\ rows = <<>> /\ qa = <<>> /\ qa_order = <<>> /\ strategy = "none"
    /\ ipc = "idle"

SegIdle ==
    /\ cell = <<>> /\ variant = "none" /\ alts = <<>> /\ segpc = "idle"

\* no seeded selection is under way
SeedIdle ==
    /\ seed = <<>> /\ rng = <<>> /\ outputs = <<>> /\ prev = <<>>

\* load_questions has not been called
ThemeIdle ==
    /\ theme_number = <<>> /\ question_list = <<>> /\ qa_map = <<>>
    /\ qid_map = <<>> /\ lpc = "idle"

\* no quiz session is open
QuizIdle ==
    /\ app = "none" /\ kor_kerdesei = <<>> /\ show_answer = <<>> /\ itel = <<>>
    /\ osszegzes = <<>> /\ radio = <<>> /\ session_theme = ""

InitSeg ==
    /\ cell \in SegCells
    /\ variant = "none"
    /\ alts = <<>>
    /\ segpc = "start"
    /\ RoundIdle
    /\ IngestIdle
    /\ SeedIdle
    /\ ThemeIdle
    /\ QuizIdle

\* one call _answers_from_cell(cell) of the module v
Segment(v) ==
    /\ segpc = "start"
    /\ variant' = v
    /\ alts' = answers_from_cell(v, cell)
    /\ segpc' = "done"
    /\ UNCHANGED <<cell, roundvars, ingestvars, seedvars, themevars, quizvars>>

SegmentMolsejt == Segment("molsejt")

SegmentKemia == Segment("kemia")

SegmentKemia1 == Segment("kemia1")

NextSeg == SegmentMolsejt \/ SegmentKemia \/ SegmentKemia1

SpecSeg == InitSeg /\ [][NextSeg]_vars


(***************************************************************************)
(* Ingest runs: a source file is drawn and one module reads it             *)
(***************************************************************************)

\* most lines of a source file after its first line
MaxRows == 3

\* first lines: question,answer / Questions, Answers / question,valasz /
\* kerdes,valasz
HeaderLines ==
    {
      <<"q", "u", "e", "s", "t", "i", "o", "n", ",", "a", "n", "s", "w", "e", "r">>,
      <<"Q", "u", "e", "s", "t", "i", "o", "n", "s", ",", " ", "A", "n", "s", "w", "e", "r", "s">>,
      <<"q", "u", "e", "s", "t", "i", "o", "n", ",", "v", "a", "l", "a", "s", "z">>,
      <<"k", "e", "r", "d", "e", "s", ",", "v", "a", "l", "a", "s", "z">> }

\* other lines: 1. a!,a; b / 1. a!,b; c / 2. b!,"- a(newline)- A" /
\* 1. a!,"- (newline)b" / q,a; A / (space),b / 1. a! / - b / b
RecordLines ==
    {
      <<"1", ".", " ", "a", "!", ",", "a", ";", " ", "b">>,
      <<"1", ".", " ", "a", "!", ",", "b", ";", " ", "c">>,
      <<"2", ".", " ", "b", "!", ",", "\"", "-", " ", "a", "\n", "-", " ", "A", "\"">>,
      <<"1", ".", " ", "a", "!", ",", "\"", "-", " ", "\n", "b", "\"">>,
      <<"q", ",", "a", ";", " ", "A">>,
      <<" ", ",", "b">>,
      <<"1", ".", " ", "a", "!">>,
      <<"-", " ", "b">>,
      <<"b">> }

RECURSIVE FileBodies(_)
\* the texts of exactly k lines, each ended by a newline
FileBodies(k) ==
    IF k = 0 THEN {<<>>}
    ELSE {b \o l \o <<"\n">> : b \in FileBodies(k - 1), l \in RecordLines}

\* the source files: with or without a header line, then up to MaxRows lines
FileTexts ==
    {h \o b : h \in {<<>>} \cup {l \o <<"\n">> : l \in HeaderLines},
              b \in UNION {FileBodies(k) : k \in 0..MaxRows}}

\* the Sniffer reports doublequote only after three quote characters with no
\* newline between them
doubled_quote_seen(text) ==
    \E i \in 1..Len(text) : \E k \in (i + 2)..Len(text) :
        /\ text[i] = "\"" /\ text[k] = "\""
        /\ \E j \in (i + 1)..(k - 1) : text[j] = "\""
        /\ \A j \in i..k : text[j] # "\n"

\* _detect_csv_dialect(path): what csv.Sniffer().sniff(sample, [",", ";", "\t"])
\* can report for the text (a delimiter that occurs in it; quotechar '"' as
\* the texts hold no apostrophe), or None, for which the reader takes its
\* default dialect. The Sniffer's choice among these is a heuristic and is
\* left open.
detect_csv_dialect(text) ==
    {[delimiter |-> dl, skipinitialspace |-> sk, doublequote |-> dq, sniffed |-> TRUE] :
        dl \in {c \in {",", ";", "\t"} : \E i \in 1..Len(text) : text[i] = c},
        sk \in BOOLEAN,
        dq \in IF doubled_quote_seen(text) THEN BOOLEAN ELSE {FALSE}}
    \cup {NoDialect}

InitIngest ==
    /\ src_exists \in BOOLEAN
    /\ src_text \in FileTexts
    /\ (src_exists \/ src_text = <<>>)
    /\ variant = "none"
    /\ dialect = NoDialect
    /\ rows = <<>>
    /\ qa = <<>>
    /\ qa_order = <<>>
    /\ strategy = "none"
    /\ ipc = "start"
    /\ cell = <<>> /\ alts = <<>> /\ segpc = "idle"
    /\ RoundIdle
    /\ SeedIdle
    /\ ThemeIdle
    /\ QuizIdle

\* the call beolvas_csv_dict(filename) of module v ends with result r
Ingested(v, d, r) ==
    /\ variant' = v
    /\ dialect' = d
    /\ rows' = r.rows
    /\ qa' = r.q.map
    /\ qa_order' = r.q.order
    /\ strategy' = r.strategy
    /\ ipc' = r.outcome
    /\ UNCHANGED <<src_exists, src_text, segvars, roundvars, seedvars, themevars, quizvars>>

\* molsejt: beolvas_csv_dict(filename)
beolvas_csv_dict_molsejt ==
    /\ ipc = "start"
    /\ \E d \in (IF src_exists THEN detect_csv_dialect(src_text) ELSE {NoDialect}) :
          Ingested("molsejt", d, beolvas_molsejt(src_exists, src_text, d))

\* kemia: beolvas_csv_dict(filename)
beolvas_csv_dict_kemia ==
    /\ ipc = "start"
    /\ \E d \in (IF src_exists THEN detect_csv_dialect(src_text) ELSE {NoDialect}) :
          Ingested("kemia", d, beolvas_kemia(src_exists, src_text, d))

\* kemia1: beolvas_csv_dict(filename)
beolvas_csv_dict_kemia1 ==
    /\ ipc = "start"
    /\ Ingested("kemia1", CommaDialect, beolvas_kemia1(src_exists, src_text))

NextIngest ==
    beolvas_csv_dict_molsejt \/ beolvas_csv_dict_kemia \/ beolvas_csv_dict_kemia1

SpecIngest == InitIngest /\ [][NextIngest]_vars


(***************************************************************************)
(* Round Selector: valassz_kerdeseket(qa, n), identical in the variants    *)
(***************************************************************************)

\* most keys of a question set handed to the round selector
MaxKeys == 5

\* list(qa.keys()): distinct question strings, named by insertion position
KeyLists == {[i \in 1..k |-> i] : k \in 0..MaxKeys}

\* requested counts: negative, in range, and beyond the number of keys
Counts == (0 - 1)..(MaxKeys + 1)

InitRound ==
    /\ qa_keys \in KeyLists
    /\ n \in Counts
    /\ pool = <<>>
    /\ round = <<>>
    /\ rpc = "start"
    /\ SegIdle
    /\ IngestIdle
    /\ SeedIdle
    /\ ThemeIdle
    /\ QuizIdle

\* "if n > len(qa): raise ValueError(...)"
too_many(k, len) == k > len

\* random.sample's own "if not 0 <= k <= n: raise ValueError"
sample_rejects(k, len) == ~(0 <= k /\ k <= len)

\* mutant of pool_after: the drawn slot is not refilled, so it can be drawn again
pool_after_keep(p, j, last) == p

\* random.sample: "pool[j] = pool[n - i - 1]", the drawn slot takes the last live one
pool_after(p, j, last) == [p EXCEPT ![j] = p[last]]

\* mutant of valassz_kerdeseket_call: no size check, sampling starts regardless
valassz_kerdeseket_unguarded ==
    /\ rpc = "start"
    /\ pool' = qa_keys
    /\ round' = <<>>
    /\ rpc' = IF n = 0 THEN "returned" ELSE "sampling"
    /\ UNCHANGED <<variant, segvars, qa_keys, n, ingestvars, seedvars, themevars, quizvars>>

\* entry of valassz_kerdeseket: the guard, then random.sample's set-up
valassz_kerdeseket_call ==
    /\ rpc = "start"
    /\ IF too_many(n, Len(qa_keys)) \/ sample_rejects(n, Len(qa_keys))
       THEN /\ rpc' = "ValueError"
            /\ UNCHANGED <<pool, round>>
       ELSE /\ pool' = qa_keys
            /\ round' = <<>>
            /\ rpc' = IF n = 0 THEN "returned" ELSE "sampling"
    /\ UNCHANGED <<variant, segvars, qa_keys, n, ingestvars, seedvars, themevars, quizvars>>

\* one iteration of random.sample's loop: j = randbelow(n - i); result[i] = pool[j]
sample_draw ==
    /\ rpc = "sampling"
    /\ \E j \in 1..(Len(qa_keys) - Len(round)) :
          /\ round' = Append(round, pool[j])
          /\ pool' = pool_after(pool, j, Len(qa_keys) - Len(round))
    /\ rpc' = IF Len(round) + 1 = n THEN "returned" ELSE "sampling"
    /\ UNCHANGED <<variant, segvars, qa_keys, n, ingestvars, seedvars, themevars, quizvars>>

NextRound == valassz_kerdeseket_call \/ sample_draw

SpecRound == InitRound /\ [][NextRound]_vars

\* the elements of a sequence
Range(s) == {s[i] : i \in 1..Len(s)}

\* no element occurs twice
Distinct(s) == \A i, j \in 1..Len(s) : i # j => s[i] # s[j]

\* C1: for 0 <= n <= number of keys the selector returns (never raises), and
\* the round it returns has exactly n elements, pairwise distinct, all keys of
\* qa; for n = number of keys it is a permutation of all keys.
C1_RoundIsDistinctSample ==
    /\ rpc = "returned" =>
          /\ Len(round) = n
          /\ Distinct(round)
          /\ Range(round) \subseteq Range(qa_keys)
          /\ (n = Len(qa_keys) => Range(round) = Range(qa_keys))
    /\ (0 <= n /\ n <= Len(qa_keys)) => rpc # "ValueError"
    /\ rpc = "sampling" => Distinct(round) /\ Len(round) < n

\* a full round of all keys, at least three, has been returned
C1_Witness ==
    rpc = "returned" /\ n = Len(qa_keys) /\ n >= 3 /\ round # qa_keys

\* C2: a count above the number of keys always ends in ValueError, before
\* anything is drawn; no returned round is shorter than the requested count;
\* with k keys, n = k returns all k keys and n = k + 1 fails.
C2_TooManyFails ==
    /\ n > Len(qa_keys) => (rpc \in {"start", "ValueError"} /\ round = <<>>)
    /\ rpc = "returned" => Len(round) >= n
    /\ (rpc = "returned" /\ n = Len(qa_keys)) => Range(round) = Range(qa_keys)

\* the call with one key too many has failed
C2_Witness ==
    rpc = "ValueError" /\ n = Len(qa_keys) + 1 /\ Len(qa_keys) = MaxKeys


(***************************************************************************)
(* Properties of the Answer Segmenter                                      *)
(***************************************************************************)

\* the trimmed, newline-normalised cell the rules work on
Txt == NormalizeCell(cell)

TxtLines == SplitLines(Txt)

\* numbers of the bullet-opening lines: indentation, hyphen, whitespace
BulletIdx == {i \in 1..Len(TxtLines) : bullet_match(TxtLines[i])}

HasBulletLine == BulletIdx # {}

\* the lines of the block opened by bullet line i: up to the next bullet line
BlockEnd(i) ==
    LET later == {j \in BulletIdx : j > i}
    IN  IF later = {} THEN Len(TxtLines) ELSE SetMin(later) - 1

\* the block of bullet line i as the rule describes it: the text after the
\* marker, then every following non-bullet line with its indentation, joined by
\* newlines; trailing whitespace of the continuation lines and of the block cut
BlockOf(i) ==
    LET body == [k \in 1..(BlockEnd(i) - i) |-> RStrip(TxtLines[i + k])]
    IN  RStrip(JoinLines(<<bullet_group1(TxtLines[i])>> \o body))

NonEmptyBlockIdx == {i \in BulletIdx : Strip(BlockOf(i)) # <<>>}

RECURSIVE Ascending(_)
\* the numbers of S in increasing order
Ascending(S) ==
    IF S = {} THEN <<>> ELSE <<SetMin(S)>> \o Ascending(S \ {SetMin(S)})

ExpectedBlocks ==
    LET idx == Ascending(NonEmptyBlockIdx)
    IN  [k \in 1..Len(idx) |-> BlockOf(idx[k])]

DTejsavCell == <<"-", " ", "D", "-", "t", "e", "j", "s", "a", "v", ":", "\n", " ", " ", "C", "O", "O", "H", "\n", " ", " ", " ", " ", "|", "\n", " ", " ", " ", "H", "-", "C", "-", "O", "H", "\n", "-", " ", "L", "-", "t", "e", "j", "s", "a", "v">>

\* C8: a cell with bullet-opening lines yields one alternative per non-empty
\* bullet block, in order, each the text after the marker followed by the
\* following non-bullet lines (indentation and blank lines kept); the
\* D-tejsav / L-tejsav cell yields exactly two, the first multi-line.
C8_BulletBlocks ==
    (segpc = "done" /\ HasBulletLine) =>
        /\ alts = ExpectedBlocks
        /\ cell = DTejsavCell =>
              /\ Len(alts) = 2
              /\ alts[1] = <<"D", "-", "t", "e", "j", "s", "a", "v", ":", "\n", " ", " ", "C", "O", "O", "H", "\n", " ", " ", " ", " ", "|", "\n", " ", " ", " ", "H", "-", "C", "-", "O", "H">>
              /\ alts[2] = <<"L", "-", "t", "e", "j", "s", "a", "v">>

\* the D-tejsav cell has been segmented into its two blocks
C8_Witness ==
    /\ segpc = "done" /\ cell = DTejsavCell /\ Len(alts) = 2
    /\ \E i \in 1..Len(alts[1]) : alts[1][i] = "\n"

\* how often character c occurs in s
CountChar(s, c) == Cardinality({i \in 1..Len(s) : s[i] = c})

RECURSIVE CountIn(_, _)
\* how often character c occurs in the strings of the list
CountIn(list, c) ==
    IF list = <<>> THEN 0 ELSE CountChar(Head(list), c) + CountIn(Tail(list), c)

\* the lines from the first bullet-opening line on: what the bullet rule keeps
KeptLines == SubSeq(TxtLines, SetMin(BulletIdx), Len(TxtLines))

\* C9: once a cell has a bullet-opening line with a non-empty block, the
\* result is the bullet rule's alone: as many alternatives as non-empty blocks,
\* and no semicolon, comma or hyphen of the kept lines is used up as a
\* separator (only the bullet markers themselves disappear).
C9_BulletPrecedence ==
    (segpc = "done" /\ NonEmptyBlockIdx # {}) =>
        /\ Len(alts) = Cardinality(NonEmptyBlockIdx)
        /\ CountIn(alts, ";") = CountIn(KeptLines, ";")
        /\ CountIn(alts, ",") = CountIn(KeptLines, ",")
        /\ CountIn(alts, "-") = CountIn(KeptLines, "-") - Cardinality(BulletIdx)

\* a bulleted cell whose blocks hold ';', ',' and ' - ' came out as two blocks
C9_Witness ==
    /\ segpc = "done" /\ variant = "kemia" /\ Len(alts) = 2
    /\ CountIn(alts, ";") >= 1 /\ CountIn(alts, ",") >= 1
    /\ \E k \in 1..2 : hyphen_search(alts[k])

\* a character that is neither whitespace nor an inline separator
Plain(c) == ~IsSpace(c) /\ c \notin {";", ","}

\* position i of Txt lies in text the segmenter keeps: in a bulleted cell the
\* lines before the first bullet are dropped
Retained(i) ==
    /\ alts # <<>>
    /\ HasBulletLine =>
          i > Len(JoinLines(SubSeq(TxtLines, 1, SetMin(BulletIdx) - 1)))

\* t occurs in s as a contiguous piece
Occurs(t, s) ==
    \E k \in 0..(Len(s) - Len(t)) : SubSeq(s, k + 1, k + Len(t)) = t

KekLila == <<"k", "e", "k", "/", "l", "i", "l", "a">>

HasChar(s, cs) == \E i \in 1..Len(s) : s[i] \in cs

\* the cell is one line, has no bullet-opening line and no whitespace-hyphen-
\* whitespace pattern
PlainInline == ~HasBulletLine /\ ~hyphen_search(Txt)

\* the trimmed, non-empty pieces of Txt cut at every character of seps, in order
Fragments(seps) ==
    LET hits == Ascending({i \in 1..Len(Txt) : Txt[i] \in seps})
        from(k) == IF k = 1 THEN 1 ELSE hits[k - 1] + 1
        to(k) == IF k = Len(hits) + 1 THEN Len(Txt) ELSE hits[k] - 1
        pieces == [k \in 1..(Len(hits) + 1) |-> Strip(SubSeq(Txt, from(k), to(k)))]
    IN  SelectSeq(pieces, LAMBDA x : x # <<>>)

LugolCell == <<"L", "u", "g", "o", "l", "-", "o", "l", "d", "a", "t", ";", " ", "j", "o", "d", " ", "o", "l", "d", "a", "t">>

\* what C6 says of the result: cut at each semicolon (in kemia at commas too),
\* fragments trimmed, empty ones dropped, order kept
SemicolonSplitResult ==
    /\ \A k \in 1..Len(alts) : ~HasChar(alts[k], {";"}) /\ Strip(alts[k]) = alts[k]
    /\ (variant # "kemia" \/ ~HasChar(Txt, {","})) => alts = Fragments({";"})
    /\ variant = "kemia" => alts = Fragments({";", ","})
    /\ cell = LugolCell => alts = <<<<"L", "u", "g", "o", "l", "-", "o", "l", "d", "a", "t">>, <<"j", "o", "d", " ", "o", "l", "d", "a", "t">>>>

\* the cells C6 is about: one line, no bullet line, no whitespace-hyphen-
\* whitespace pattern, at least one semicolon
SemicolonCell ==
    /\ segpc = "done"
    /\ Len(TxtLines) = 1
    /\ PlainInline
    /\ HasChar(Txt, {";"})

AgarozCell == <<"A", "g", "a", "r", "o", "z", " ", "g", "e", "l", ",", " ", "a", "g", "a", "r", "o", "z">>

\* C7: in the kemia variant a cell without bullet-opening lines and without a
\* whitespace-hyphen-whitespace pattern that holds a comma or a semicolon is
\* split on every ';' and ',', fragments trimmed, empty ones dropped, in order.
C7_CommaSplit ==
    (/\ segpc = "done"
     /\ variant = "kemia"
     /\ PlainInline
     /\ HasChar(Txt, {";", ","})) =>
        /\ alts = Fragments({";", ","})
        /\ cell = AgarozCell => alts = <<<<"A", "g", "a", "r", "o", "z", " ", "g", "e", "l">>, <<"a", "g", "a", "r", "o", "z">>>>

\* C7 restricted to cells on which bullet detection does not trigger
C7_CommaSplitNoDetection ==
    (/\ segpc = "done"
     /\ variant = "kemia"
     /\ ~bullet_search(Txt)
     /\ PlainInline
     /\ HasChar(Txt, {";", ","})) =>
        /\ alts = Fragments({";", ","})
        /\ cell = AgarozCell => alts = <<<<"A", "g", "a", "r", "o", "z", " ", "g", "e", "l">>, <<"a", "g", "a", "r", "o", "z">>>>

\* a character of an answer text proper: no whitespace, separator or hyphen
Letter(c) == Plain(c) /\ c # "-"

\* C10: a cell that is non-empty after trimming and holds text other than bare
\* bullet markers never yields an empty sequence: a rule that produces no
\* fragment does not win, the later rules still apply.
C10_NeverEmpty ==
    (segpc = "done" /\ \E i \in 1..Len(Txt) : Letter(Txt[i])) => alts # <<>>

\* C10 in the molsejt variant, whose rules do fall through
C10_NeverEmptyMolsejt ==
    (segpc = "done" /\ variant = "molsejt" /\ Txt # <<>>) => alts # <<>>


(***************************************************************************)
(* Properties of the CSV Ingester                                          *)
(***************************************************************************)

\* the rows the row loop of module v goes through
DataRows(v) == IF v = "kemia1" THEN rows ELSE dict_rows(rows)

\* the question key module v takes from row r; None if it passes the row over
RowKey(v, r) ==
    LET names == fieldnames_of(rows)
    IN  CASE v = "molsejt" ->
               LET c == find_column(names, <<COL_QUESTION, COL_QUESTIONS>>)
                   question == Strip(OrEmpty(row_get(names, r, c.val)))
               IN  IF question = <<>> THEN None ELSE Some(question)
          [] v = "kemia" ->
               LET c == find_column(names, <<COL_QUESTIONS, COL_QUESTION>>)
                   q_raw == IF c.some THEN row_get(names, r, c.val) ELSE Some(<<>>)
                   question == extract_question_strict(OrEmpty(q_raw))
               IN  IF strict_match(question) THEN Some(question) ELSE None
          [] v = "kemia1" ->
               LET parsed == parse_row_q_and_as(r)
               IN  IF parsed.some THEN Some(parsed.val[1]) ELSE None

\* the answer cell module v reads in row r: the cell of the answer column in
\* molsejt and kemia (None if the row is too short for it, "" if kemia finds
\* no such column)
AnswerCell(v, r) ==
    LET names == fieldnames_of(rows)
        c == IF v = "molsejt" THEN find_column(names, <<COL_ANSWER, COL_ANSWERS>>)
             ELSE find_column(names, <<COL_ANSWERS, COL_ANSWER>>)
    IN  IF c.some THEN row_get(names, r, c.val) ELSE Some(<<>>)

\* the segmented answers module v takes from row r
RowAnswers(v, r) ==
    CASE v = "molsejt" -> answers_from_cell_molsejt(OrEmpty(AnswerCell(v, r)))
      [] v = "kemia" ->
           IF AnswerCell(v, r).some THEN answers_from_cell_kemia(AnswerCell(v, r).val)
           ELSE <<>>
      [] v = "kemia1" -> parse_row_q_and_as(r).val[2]

\* row r carries the key "1. a!" and the answer cell txt (in kemia1, which has
\* no answer column, as the cell after the question)
ExampleRow(v, r, txt) ==
    IF v = "kemia1" THEN r = <<<<"1", ".", " ", "a", "!">>, txt>>
    ELSE AnswerCell(v, r) = Some(txt)

\* the rows that carry the question key
Carriers(v, key) ==
    {i \in 1..Len(DataRows(v)) : RowKey(v, DataRows(v)[i]) = Some(key)}

RECURSIVE CarriedAnswers(_, _, _)
\* the segmented answers of the rows from i on that carry the key, in row order
CarriedAnswers(v, key, i) ==
    IF i > Len(DataRows(v)) THEN <<>>
    ELSE (IF i \in Carriers(v, key) THEN RowAnswers(v, DataRows(v)[i]) ELSE <<>>)
         \o CarriedAnswers(v, key, i + 1)

\* two alternatives are the same answer: equal after trimming, letter case aside
SameAnswer(a, b) == Lower(Strip(a)) = Lower(Strip(b))

\* the places of s that hold the first occurrence of a non-blank answer
FirstOccurrences(s) ==
    {i \in 1..Len(s) : Strip(s[i]) # <<>> /\ \A j \in 1..(i - 1) : ~SameAnswer(s[j], s[i])}

\* s without its later duplicates, the kept alternatives as they stand
KeepFirst(s) ==
    LET idx == Ascending(FirstOccurrences(s))
    IN  [k \in 1..Len(idx) |-> s[idx[k]]]

\* s without its later duplicates, the kept alternatives trimmed
KeepFirstTrimmed(s) ==
    LET kept == KeepFirst(s)
    IN  [k \in 1..Len(kept) |-> Strip(kept[k])]

\* the key carried by several rows
MergedKeys ==
    {key \in DOMAIN qa : Cardinality(Carriers(variant, key)) >= 2}

Key1a == <<"1", ".", " ", "a", "!">>

\* the key "1. a!" is carried by exactly two rows, with the answer cells "a; b"
\* and "b; c" in this order
ExampleMerge ==
    /\ Key1a \in DOMAIN qa
    /\ \E i, j \in Carriers(variant, Key1a) :
          /\ i < j
          /\ Carriers(variant, Key1a) = {i, j}
          /\ ExampleRow(variant, DataRows(variant)[i], <<"a", ";", " ", "b">>)
          /\ ExampleRow(variant, DataRows(variant)[j], <<"b", ";", " ", "c">>)

ABC == <<<<"a">>, <<"b">>, <<"c">>>>

FromCsv == ipc = "returned" /\ strategy = "csv"

\* C3: the returned mapping has no duplicate keys and no value sequence holds
\* two alternatives that are equal after trimming, letter case aside - also
\* inside one answer cell and for a question of a single row.
C3_NoDuplicateAlternatives ==
    ipc = "returned" =>
        /\ Distinct(qa_order)
        /\ \A key \in DOMAIN qa : \A i, j \in 1..Len(qa[key]) :
              i # j => ~SameAnswer(qa[key][i], qa[key][j])

MultiLine == HasChar(Txt, {"\n"})

\* C11: a multi-line cell without a bullet-opening line comes back as exactly
\* one alternative, the trimmed cell with its newlines, whatever commas,
\* semicolons or hyphens its lines hold.
C11_MultiLineWhole ==
    (segpc = "done" /\ MultiLine /\ ~HasBulletLine) => alts = <<Txt>>

\* C11 where it does hold: multi-line cells without bullet detection, without
\* the hyphen pattern and without semicolon (in kemia: or comma)
C11_MultiLinePlainWhole ==
    (/\ segpc = "done" /\ MultiLine /\ ~bullet_search(Txt) /\ ~hyphen_search(Txt)
     /\ ~HasChar(Txt, {";"})
     /\ (variant = "kemia" => ~HasChar(Txt, {","}))) => alts = <<Txt>>


(***************************************************************************)
(* Further properties of the CSV Ingester                                  *)
(***************************************************************************)

FallbackVariants == {"kemia", "kemia1"}

\* the header matches of the source read as numbered text
SourceHeaders == header_finditer(read_text(src_text), 1)

\* the key the numbered-text parser makes of header match m
HeaderKey(m) == Append(Strip(m.q), "!")

\* the text between header match i and the next one
HeaderBlock(i) ==
    LET text == read_text(src_text)
        stop == IF i + 1 <= Len(SourceHeaders) THEN SourceHeaders[i + 1].start - 1
                ELSE Len(text)
    IN  SubSeq(text, SourceHeaders[i].end + 1, stop)

\* what a line or cell says, a leading bullet marker aside
Content(s) == IF bullet_match(s) THEN Strip(bullet_group1(s)) ELSE Strip(s)

\* the text stands in an alternative of the entry of the key
Kept(txt, key) ==
    key \in DOMAIN qa /\ \E k \in 1..Len(qa[key]) : Occurs(txt, qa[key][k])

\* every key stems from a row or span of the strict form
KeysAreStrict ==
    /\ strategy = "csv" => \A key \in DOMAIN qa : strict_match(key)
    /\ strategy = "text" =>
          \A key \in DOMAIN qa :
              \E i \in 1..Len(SourceHeaders) : key = HeaderKey(SourceHeaders[i])

\* the rows before row i that carry a question
QuestionRowsBefore(v, i) ==
    {j \in 1..(i - 1) : RowKey(v, DataRows(v)[j]).some}

\* CSV path: the cells of a row without the strict form stand in the entry of
\* the question before it
RowsContinue ==
    \A i \in 1..Len(DataRows(variant)) :
        LET r == DataRows(variant)[i]
            before == QuestionRowsBefore(variant, i)
        IN  (~RowKey(variant, r).some /\ before # {}) =>
                \A c \in 1..Len(r) :
                    Content(r[c]) # <<>> =>
                        Kept(Content(r[c]),
                             RowKey(variant, DataRows(variant)[SetMax(before)]).val)

\* text path: the lines after a header stand in the entry of that header
SpansContinue ==
    \A i \in 1..Len(SourceHeaders) :
        LET lines == SplitLines(HeaderBlock(i))
        IN  \A k \in 1..Len(lines) :
                Content(lines[k]) # <<>> =>
                    Kept(Content(lines[k]), HeaderKey(SourceHeaders[i]))

\* C12 (kemia variants): a row or span without the strict form (digits, period,
\* ..., '!') never makes a key, and its content is kept as a continuation of
\* the question before it, not discarded.
C12_StrictPatternContinuation ==
    (ipc = "returned" /\ variant \in FallbackVariants) =>
        /\ KeysAreStrict
        /\ strategy = "csv" => RowsContinue
        /\ strategy = "text" => SpansContinue

\* C12, first half alone
C12_KeysAreStrict ==
    (ipc = "returned" /\ variant \in FallbackVariants) => KeysAreStrict

\* C12, second half on the text path alone
C12_SpansContinue ==
    (ipc = "returned" /\ variant \in FallbackVariants /\ strategy = "text") =>
        SpansContinue

\* C12, second half on the CSV path alone
C12_RowsContinue ==
    (ipc = "returned" /\ variant \in FallbackVariants /\ strategy = "csv") =>
        RowsContinue

\* some header of the first row is, trimmed and lower-cased, one of the names
HasSynonym(names) ==
    \E j \in 1..Len(fieldnames_of(rows)) :
        Lower(Strip(fieldnames_of(rows)[j])) \in names

\* the header row lacks a question-column or an answer-column synonym
MissingColumn ==
    \/ ~HasSynonym({COL_QUESTION, COL_QUESTIONS})
    \/ ~HasSynonym({COL_ANSWER, COL_ANSWERS})

\* the call has ended
IngestDone == ipc \notin {"idle", "start"}

\* C13: when the header holds no question-column synonym or no answer-column
\* synonym, beolvas_csv_dict fails with a reported error - unless, in the
\* fallback variant, the strict numbered-text parse yields a question; it never
\* returns questions from a guessed column or with the answers taken as empty.
C13_MissingColumnsFatal ==
    (IngestDone /\ src_exists /\ variant \in {"molsejt", "kemia"} /\ MissingColumn) =>
        \/ ipc \in {"KeyError", "ValueError"}
        \/ (variant = "kemia" /\ ipc = "returned" /\ strategy = "text")

\* C13 in molsejt, which does raise
C13_MissingColumnsFatalMolsejt ==
    (IngestDone /\ src_exists /\ variant = "molsejt" /\ MissingColumn) =>
        ipc \in {"KeyError", "ValueError"}

Failures == {"FileNotFoundError", "ValueError", "KeyError"}

\* no row of the source yields a question for the module, nor does, where the
\* module has the fallback, the numbered-text parse
NothingYields ==
    /\ \A i \in 1..Len(DataRows(variant)) : ~RowKey(variant, DataRows(variant)[i]).some
    /\ variant \in FallbackVariants => SourceHeaders = <<>>

\* C14: for an existing source beolvas_csv_dict either fails or returns a
\* mapping with at least one key; a source without data rows, or whose rows
\* (and, where there is a fallback, whose numbered text) yield no question,
\* ends in failure, never in an empty mapping.
C14_NoEmptyResult ==
    (IngestDone /\ src_exists) =>
        /\ ipc \in Failures \/ (ipc = "returned" /\ DOMAIN qa # {} /\ qa_order # <<>>)
        /\ NothingYields => ipc \in Failures

\* kemia has refused a file with rows of which none yields a question, after
\* its last strategy
C14_Witness ==
    /\ IngestDone /\ src_exists /\ NothingYields /\ Len(rows) >= 2
    /\ variant = "kemia" /\ ipc = "ValueError"

QuestionCell(v, r) ==
    LET names == fieldnames_of(rows)
        c == IF v = "molsejt" THEN find_column(names, <<COL_QUESTION, COL_QUESTIONS>>)
             ELSE find_column(names, <<COL_QUESTIONS, COL_QUESTION>>)
    IN  IF c.some THEN OrEmpty(row_get(names, r, c.val)) ELSE <<>>

\* the question field of the row is empty or whitespace-only
BlankQuestion(v, r) == Strip(QuestionCell(v, r)) = <<>>

\* the data rows without those of a blank question field
FilledRows(v) == SelectSeq(DataRows(v), LAMBDA r : ~BlankQuestion(v, r))

\* the outcome of the row loop of module v over the given data rows
LoopOver(v, data) ==
    LET names == fieldnames_of(rows)
    IN  IF v = "molsejt"
        THEN rows_molsejt(names, data, 1,
                          find_column(names, <<COL_QUESTION, COL_QUESTIONS>>).val,
                          find_column(names, <<COL_ANSWER, COL_ANSWERS>>).val, EmptyQA)
        ELSE rows_kemia(names, data, 1,
                        find_column(names, <<COL_QUESTIONS, COL_QUESTION>>),
                        find_column(names, <<COL_ANSWERS, COL_ANSWER>>), EmptyQA)

ColumnVariants == {"molsejt", "kemia"}

\* some row has a blank question field, another row yields a question
BlankAmongQuestions ==
    /\ \E i \in 1..Len(DataRows(variant)) : BlankQuestion(variant, DataRows(variant)[i])
    /\ \E i \in 1..Len(DataRows(variant)) : RowKey(variant, DataRows(variant)[i]).some

\* C16: a row whose question field is empty or whitespace-only is skipped
\* without error and without effect on the entries of the other rows (the
\* result is that of the source without such rows), and every key of the
\* returned mapping is non-empty after trimming.
C16_EmptyQuestionRowsSkipped ==
    /\ ipc = "returned" => \A key \in DOMAIN qa : Strip(key) # <<>>
    /\ (FromCsv /\ variant \in ColumnVariants) =>
          LoopOver(variant, FilledRows(variant)) = [map |-> qa, order |-> qa_order]
    /\ (IngestDone /\ src_exists /\ variant \in ColumnVariants
        /\ BlankAmongQuestions /\ ~MissingColumn) => FromCsv

\* a source with a row of a whitespace-only question field and a non-blank
\* answer cell has been read, the row left out
C16_Witness ==
    /\ FromCsv /\ variant = "molsejt" /\ BlankAmongQuestions
    /\ \E i \in 1..Len(DataRows(variant)) :
          /\ BlankQuestion(variant, DataRows(variant)[i])
          /\ QuestionCell(variant, DataRows(variant)[i]) # <<>>
          /\ OrEmpty(AnswerCell(variant, DataRows(variant)[i])) # <<>>
    /\ Len(FilledRows(variant)) < Len(DataRows(variant))

\* the same with an empty question field
C16_WitnessEmpty ==
    /\ FromCsv /\ variant = "kemia" /\ BlankAmongQuestions
    /\ \E i \in 1..Len(DataRows(variant)) :
          /\ Len(DataRows(variant)[i]) = 2
          /\ QuestionCell(variant, DataRows(variant)[i]) = <<>>
          /\ OrEmpty(AnswerCell(variant, DataRows(variant)[i])) # <<>>


(***************************************************************************)
(* Seeded round selection: select_round(qa_set, n, seed=None), the         *)
(* operation app.py calls as valassz_forras_es_kerdesek(..., seed=SEED).   *)
(* Its body is not among the sources; it is modelled from the interface    *)
(* description: the selection of valassz_kerdeseket, drawn from a          *)
(* generator that is seeded with the caller's seed when one is given.      *)
(***************************************************************************)

\* largest seed a caller passes
MaxSeed == 2

\* most keys of a question set handed to the seeded selection
MaxSeededKeys == 4

\* the question sets of the seeded selection
SeededKeyLists == {ks \in KeyLists : Len(ks) <= MaxSeededKeys}

\* the seed argument: <<>> stands for None, <<s>> for the integer s
SeedArgs == {<<>>} \cup {<<s>> : s \in 1..MaxSeed}

\* mutant of seed_state: the seed is dropped, the generator stays on OS entropy
seed_state_dropped(s) == <<>>

\* the generator state at the start of a selection: unknown (<<>>) without
\* a seed, else fixed by the seed with no draw made yet
seed_state(s) == IF s = <<>> THEN <<>> ELSE <<s[1], 0>>

\* the generator state after one more draw
rng_next(g) == IF g = <<>> THEN <<>> ELSE <<g[1], g[2] + 1>>

\* what the generator may return for randbelow(k) in state g: anything in an
\* unknown state or in a state not met before, else what that state gave before
rng_draws(g, k) ==
    IF g # <<>> /\ g \in DOMAIN outputs THEN {outputs[g]} ELSE 1..k

\* the generator's outputs met so far, with the draw j made in state g
outputs_with(g, j) ==
    IF g = <<>> \/ g \in DOMAIN outputs THEN outputs ELSE outputs @@ (g :> j)

InitSeeded ==
    /\ qa_keys \in SeededKeyLists
    /\ n \in Counts
    /\ seed \in SeedArgs
    /\ rng = <<>>
    /\ outputs = <<>>
    /\ prev = <<>>
    /\ pool = <<>>
    /\ round = <<>>
    /\ rpc = "start"
    /\ SegIdle
    /\ IngestIdle
    /\ ThemeIdle
    /\ QuizIdle

\* entry of select_round: seed the generator, then the guard and the set-up
\* of valassz_kerdeseket
select_round_call ==
    /\ rpc = "start"
    /\ rng' = seed_state(seed)
    /\ IF too_many(n, Len(qa_keys)) \/ sample_rejects(n, Len(qa_keys))
       THEN /\ rpc' = "ValueError"
            /\ UNCHANGED <<pool, round>>
       ELSE /\ pool' = qa_keys
            /\ round' = <<>>
            /\ rpc' = IF n = 0 THEN "returned" ELSE "sampling"
    /\ UNCHANGED <<variant, segvars, qa_keys, n, ingestvars, seed, outputs, prev, themevars, quizvars>>

\* one iteration of the sampling loop, its index taken from the generator
select_round_draw ==
    /\ rpc = "sampling"
    /\ \E j \in rng_draws(rng, Len(qa_keys) - Len(round)) :
          /\ round' = Append(round, pool[j])
          /\ pool' = pool_after(pool, j, Len(qa_keys) - Len(round))
          /\ outputs' = outputs_with(rng, j)
    /\ rng' = rng_next(rng)
    /\ rpc' = IF Len(round) + 1 = n THEN "returned" ELSE "sampling"
    /\ UNCHANGED <<variant, segvars, qa_keys, n, ingestvars, seed, prev, themevars, quizvars>>

\* the caller keeps the round it got and selects once more from the same
\* question set, with any count and any seed
select_round_again ==
    /\ rpc = "returned"
    /\ prev = <<>>
    /\ prev' = <<[seed |-> seed, n |-> n, round |-> round]>>
    /\ \E s \in SeedArgs : seed' = s
    /\ \E k \in Counts : n' = k
    /\ pool' = <<>>
    /\ round' = <<>>
    /\ rpc' = "start"
    /\ UNCHANGED <<variant, segvars, qa_keys, ingestvars, rng, outputs, themevars, quizvars>>

NextSeeded == select_round_call \/ select_round_draw \/ select_round_again

SpecSeeded == InitSeeded /\ [][NextSeeded]_vars

\* a second selection has returned, made with the seed and count of the first
SameCallAgain ==
    /\ rpc = "returned"
    /\ prev # <<>>
    /\ prev[1].seed = seed
    /\ prev[1].n = n

C17_UnseededMayDiffer ==
    /\ SameCallAgain
    /\ seed = <<>>
    /\ round # prev[1].round


\* some row of the source yields a question in the row loop of the module
CsvYields ==
    \E i \in 1..Len(DataRows(variant)) : RowKey(variant, DataRows(variant)[i]).some

\* the numbered-text parse of the source finds a question
TextYields == SourceHeaders # <<>>

\* the outcome of the CSV pass of a module with the fallback
CsvParse(v) ==
    IF v = "kemia" THEN LoopOver(v, DataRows(v)) ELSE rows_kemia1(rows, 1, EmptyQA)

\* the outcome of the numbered-text pass
TextParse(v) == parse_numbered_text_strict(read_text(src_text), v)

\* the call returned the outcome q
Returned(q, how) ==
    /\ ipc = "returned"
    /\ strategy = how
    /\ qa = q.map
    /\ qa_order = q.order

\* C19: in the modules with the fallback, beolvas_csv_dict tries the CSV
\* parse first and the strict numbered-text parse second: whenever the CSV
\* parse yields a question the result is exactly the CSV parse result; the
\* text parse result is returned only when the CSV parse found no rows or no
\* question, and then whenever the text parse finds one; if both yield nothing
\* the call fails.
C19_StrategyOrder ==
    (IngestDone /\ src_exists /\ variant \in FallbackVariants) =>
        /\ CsvYields => Returned(CsvParse(variant), "csv")
        /\ strategy = "text" => ~CsvYields
        /\ (~CsvYields /\ TextYields) => Returned(TextParse(variant), "text")
        /\ (~CsvYields /\ ~TextYields) => (ipc = "ValueError" /\ strategy = "none")

\* both parses find a question in the source and would name it differently;
\* the CSV parse result has been returned
C19_Witness ==
    /\ IngestDone /\ src_exists /\ variant \in FallbackVariants
    /\ CsvYields /\ TextYields
    /\ strategy = "csv"
    /\ \E i \in 1..Len(SourceHeaders) : HeaderKey(SourceHeaders[i]) \notin DOMAIN qa

\* the CSV parse went through rows without finding a question, and the text
\* parse result has been returned
C19_WitnessText ==
    /\ IngestDone /\ src_exists /\ variant \in FallbackVariants
    /\ DataRows(variant) # <<>> /\ ~CsvYields
    /\ strategy = "text" /\ qa_order # <<>>


(***************************************************************************)
(* Thematic selection: load_questions(path, theme_number) of app_biofizika *)
(***************************************************************************)

\* the letters of the model's texts
Letters ==
    {"a", "b", "c", "d", "e", "h", "i", "k", "l", "n", "o", "q", "r", "s", "t",
     "u", "v", "w", "x", "z", "á", "é", "A", "B", "C", "D", "H", "L", "O", "Q"}

\* \w of re: letters, digits and the underscore
IsWord(c) == c \in Letters \cup Digits \cup {"_"}

\* \b of re at the gap before position i of s
word_boundary(s, i) ==
    LET before == i > 1 /\ IsWord(s[i - 1])
        after == i <= Len(s) /\ IsWord(s[i])
    IN  before # after

\* the end of a match of \b(\d+\.\d+)\b that starts at i, 0 if there is none:
\* both runs of digits are taken whole, a shorter one ends before a digit
qid_match_end(s, i) ==
    LET e1 == RunEnd(s, i, Digits)
        e2 == RunEnd(s, e1 + 2, Digits)
    IN  IF /\ word_boundary(s, i)
           /\ e1 >= i
           /\ e1 + 2 <= Len(s)
           /\ s[e1 + 1] = "."
           /\ e2 >= e1 + 2
           /\ word_boundary(s, e2 + 1)
        THEN e2 ELSE 0

\* extract_qid(question): group 1 of the first match, or None
extract_qid(question) ==
    LET starts == {i \in 1..Len(question) : qid_match_end(question, i) > 0}
    IN  IF question = <<>> \/ starts = {} THEN None
        ELSE Some(SubSeq(question, SetMin(starts), qid_match_end(question, SetMin(starts))))

\* [x.strip() for x in s.split(sep) if x.strip()]
split_strip(s, sep) ==
    LET parts == SplitOn(s, {sep})
        stripped == [k \in 1..Len(parts) |-> Strip(parts[k])]
    IN  SelectSeq(stripped, LAMBDA x : x # <<>>)

\* split_answers(cell): by lines if the cell has several, else by semicolons
split_answers(raw) ==
    LET s == Strip(raw)
    IN  IF s = <<>> THEN <<>>
        ELSE IF \E i \in 1..Len(s) : s[i] = "\n" THEN split_strip(s, "\n")
        ELSE IF \E i \in 1..Len(s) : s[i] = ";" THEN split_strip(s, ";")
        ELSE <<s>>

\* the candidates "question", "kérdés", "kerdes", "q"
QUESTION_CANDS ==
    <<<<"q", "u", "e", "s", "t", "i", "o", "n">>,
      <<"k", "é", "r", "d", "é", "s">>,
      <<"k", "e", "r", "d", "e", "s">>,
      <<"q">>>>

\* the candidates "answer", "válasz", "valasz", "a"
ANSWER_CANDS ==
    <<<<"a", "n", "s", "w", "e", "r">>,
      <<"v", "á", "l", "a", "s", "z">>,
      <<"v", "a", "l", "a", "s", "z">>,
      <<"a">>>>

\* first_existing(rows[0], *cands): the key None, which DictReader gives a row
\* with more fields than the header, has no strip(): AttributeError
first_existing(names, row, cands) ==
    IF Len(row) > Len(names) THEN [raised |-> TRUE, col |-> None]
    ELSE [raised |-> FALSE, col |-> find_column(names, cands)]

\* s.startswith(p)
StartsWith(s, p) == Len(s) >= Len(p) /\ SubSeq(s, 1, Len(p)) = p

\* the three results of load_questions
EmptyLoad == [questions |-> <<>>, answers |-> <<>>, qids |-> <<>>]

\* d[key] = value
dict_set(d, key, value) ==
    [x \in DOMAIN d \cup {key} |-> IF x = key THEN value ELSE d[x]]

RECURSIVE rows_load(_, _, _, _, _, _, _)
\* load_questions: the "for r in rows" loop, from row i on
rows_load(names, data, i, q_col, a_col, theme, acc) ==
    IF i > Len(data) THEN acc
    ELSE LET q == Strip(OrEmpty(row_get(names, data[i], q_col)))
             a_raw == OrEmpty(row_get(names, data[i], a_col))
             qid == extract_qid(q)
         IN  rows_load(names, data, i + 1, q_col, a_col, theme,
                 IF q = <<>> \/ ~qid.some \/ ~StartsWith(qid.val, Append(theme, "."))
                 THEN acc
                 ELSE [questions |-> Append(acc.questions, q),
                       answers |-> dict_set(acc.answers, q, split_answers(a_raw)),
                       qids |-> dict_set(acc.qids, q, qid.val)])

\* the call ends: how, with which result, after reading which rows
Loaded(how, r, all) == [outcome |-> how, r |-> r, rows |-> all]

\* load_questions(path, theme_number), d being the dialect in use; open()
\* reads with universal newlines; st.stop() ends the script run
load_questions(exists, text, d, theme) ==
    IF ~exists THEN Loaded("FileNotFoundError", EmptyLoad, <<>>)
    ELSE LET all == csv_reader(read_text(text), d)
             names == fieldnames_of(all)
             data == dict_rows(all)
         IN  IF data = <<>> THEN Loaded("returned", EmptyLoad, all)
             ELSE LET q_col == first_existing(names, data[1], QUESTION_CANDS)
                      a_col == first_existing(names, data[1], ANSWER_CANDS)
                  IN  IF q_col.raised \/ a_col.raised
                      THEN Loaded("AttributeError", EmptyLoad, all)
                      ELSE IF ~q_col.col.some \/ ~a_col.col.some
                      THEN Loaded("Stop", EmptyLoad, all)
                      ELSE Loaded("returned",
                                  rows_load(names, data, 1, q_col.col.val, a_col.col.val,
                                            theme, EmptyLoad),
                                  all)

\* most lines of a question file after its first line
MaxThemeRows == 2

\* first lines: question,answer / q,a / question,b
ThemeHeaderLines ==
    { <<"q", "u", "e", "s", "t", "i", "o", "n", ",", "a", "n", "s", "w", "e", "r">>,
      <<"q", ",", "a">>,
      <<"q", "u", "e", "s", "t", "i", "o", "n", ",", "b">> }

\* other lines: 1.02 a,a;b / 11.02,a / 2.01 1.05,b / a1.02,a / x,a / ,a / 1.02 a,c /  1.5 , b  / 1.,a / 2.5 / x,a,b
ThemeRecordLines ==
    { <<"1", ".", "0", "2", " ", "a", ",", "a", ";", "b">>,
      <<"1", "1", ".", "0", "2", ",", "a">>,
      <<"2", ".", "0", "1", " ", "1", ".", "0", "5", ",", "b">>,
      <<"a", "1", ".", "0", "2", ",", "a">>,
      <<"x", ",", "a">>,
      <<",", "a">>,
      <<"1", ".", "0", "2", " ", "a", ",", "c">>,
      <<" ", "1", ".", "5", " ", ",", " ", "b", " ">>,
      <<"1", ".", ",", "a">>,
      <<"2", ".", "5">>,
      <<"x", ",", "a", ",", "b">> }

RECURSIVE ThemeBodies(_)
\* the texts of exactly k lines, each ended by a newline
ThemeBodies(k) ==
    IF k = 0 THEN {<<>>}
    ELSE {b \o l \o <<"\n">> : b \in ThemeBodies(k - 1), l \in ThemeRecordLines}

\* the question files: with or without a header line, then up to MaxThemeRows
\* lines
ThemeFileTexts ==
    {h \o b : h \in {<<>>} \cup {l \o <<"\n">> : l \in ThemeHeaderLines},
              b \in UNION {ThemeBodies(k) : k \in 0..MaxThemeRows}}

\* the theme numbers "1", "2" and "11"
Themes == {<<"1">>, <<"2">>, <<"1", "1">>}

InitThemes ==
    /\ src_exists \in BOOLEAN
    /\ src_text \in ThemeFileTexts
    /\ (src_exists \/ src_text = <<>>)
    /\ theme_number \in Themes
    /\ question_list = <<>>
    /\ qa_map = <<>>
    /\ qid_map = <<>>
    /\ lpc = "start"
    /\ dialect = NoDialect
    /\ rows = <<>>
    /\ qa = <<>> /\ qa_order = <<>> /\ strategy = "none" /\ ipc = "idle"
    /\ SegIdle
    /\ RoundIdle
    /\ SeedIdle
    /\ QuizIdle

\* detect_dialect(path): what the Sniffer can report for the text as open()
\* hands it over, or None; None as well when the file cannot be opened
detect_dialect(exists, text) ==
    IF exists THEN detect_csv_dialect(read_text(text)) ELSE {NoDialect}

\* the call load_questions(FILE_ELM, tema_szam): detect_dialect, then the load
load_questions_call ==
    /\ lpc = "start"
    /\ \E d \in detect_dialect(src_exists, src_text) :
          LET r == load_questions(src_exists, src_text, d, theme_number)
          IN  /\ dialect' = d
              /\ rows' = r.rows
              /\ question_list' = r.r.questions
              /\ qa_map' = r.r.answers
              /\ qid_map' = r.r.qids
              /\ lpc' = r.outcome
    /\ UNCHANGED <<variant, segvars, roundvars, seedvars, src_exists, src_text,
                   theme_number, qa, qa_order, strategy, ipc, quizvars>>

NextThemes == load_questions_call

SpecThemes == InitThemes /\ [][NextThemes]_vars


(***************************************************************************)
(* Properties of the thematic selection                                    *)
(***************************************************************************)

LoadDone == lpc \notin {"idle", "start"}

\* the rows load_questions goes through
LoadRows == dict_rows(rows)

\* the question of row r: its field in the question column, trimmed
LoadQuestion(r) ==
    Strip(OrEmpty(row_get(fieldnames_of(rows), r,
                          find_column(fieldnames_of(rows), QUESTION_CANDS).val)))

\* s[i..j] is a dotted identifier: digits, a period, digits, not continued by
\* a letter, digit or underscore on either side
DottedAt(s, i, j) ==
    /\ 1 <= i /\ j <= Len(s)
    /\ \E p \in (i + 1)..(j - 1) :
          /\ s[p] = "."
          /\ \A k \in i..j : k # p => s[k] \in Digits
    /\ (i = 1 \/ ~IsWord(s[i - 1]))
    /\ (j = Len(s) \/ ~IsWord(s[j + 1]))

\* the part of the identifier s[i..j] before its period
BeforeDot(s, i, j) ==
    SubSeq(s, i, SetMin({p \in i..j : s[p] = "."}) - 1)

\* the question holds a dotted identifier of the theme
HoldsThemeId(q, theme) ==
    \E i, j \in 1..Len(q) : DottedAt(q, i, j) /\ BeforeDot(q, i, j) = theme

\* the leftmost dotted identifier of the question is one of the theme
FirstIdOfTheme(q, theme) ==
    \E i, j \in 1..Len(q) :
        /\ DottedAt(q, i, j) /\ BeforeDot(q, i, j) = theme
        /\ \A i2, j2 \in 1..Len(q) : DottedAt(q, i2, j2) => i <= i2

\* the questions of the rows that the test picks, in the order of the rows
Picked(Test(_)) ==
    LET qs == [k \in 1..Len(LoadRows) |-> LoadQuestion(LoadRows[k])]
    IN  SelectSeq(qs, Test)

\* every returned question has an entry in both maps, and the maps hold nothing else
MapsCoverList ==
    /\ \A k \in 1..Len(question_list) :
          question_list[k] \in DOMAIN qa_map /\ question_list[k] \in DOMAIN qid_map
    /\ DOMAIN qa_map = Range(question_list)
    /\ DOMAIN qid_map = Range(question_list)

\* the file is there and its first line names a question and an answer column
ColumnsNamed ==
    /\ src_exists
    /\ find_column(fieldnames_of(rows), QUESTION_CANDS).some
    /\ find_column(fieldnames_of(rows), ANSWER_CANDS).some

\* C20: the returned question list contains exactly the rows with a non-empty
\* question whose text contains a dotted identifier whose part before the
\* period equals the theme number; a row whose question has no identifier is
\* skipped without error, and every returned question has an entry in both
\* the answer map and the identifier map.
C20_ThematicSelection ==
    /\ (LoadDone /\ ColumnsNamed) => lpc = "returned"
    /\ (lpc = "returned" /\ LoadRows # <<>>) =>
          /\ question_list =
                Picked(LAMBDA q : q # <<>> /\ HoldsThemeId(q, theme_number))
          /\ MapsCoverList

\* rows without an identifier never make the call fail
C20_NoIdentifierSkipped ==
    (LoadDone /\ ColumnsNamed) => lpc = "returned"

\* what load_questions returns: the rows, in order, with a non-empty question
\* whose leftmost dotted identifier has the theme number before its period;
\* each returned question has its entry in both maps
C20_FirstIdentifierSelection ==
    (lpc = "returned" /\ LoadRows # <<>>) =>
        /\ question_list =
              Picked(LAMBDA q : q # <<>> /\ FirstIdOfTheme(q, theme_number))
        /\ MapsCoverList

\* theme "1" is never served a question numbered 11.02
C20_ThemePrefixExact ==
    lpc = "returned" =>
        \A k \in 1..Len(question_list) :
            StartsWith(qid_map[question_list[k]], Append(theme_number, "."))

\* a question of the theme has been returned although other rows of the file
\* had a question of another theme, or none, or one without identifier
C20_Reached ==
    /\ lpc = "returned" /\ question_list # <<>>
    /\ Len(LoadRows) > Len(question_list)


(***************************************************************************)
(* Further properties of the Answer Segmenter: the inline hyphen rule      *)
(***************************************************************************)

\* the variants that have the inline rules
InlineVariants == {"molsejt", "kemia"}

\* the cell has no bullet line and holds whitespace, hyphen, whitespace
InlineHyphenCell ==
    /\ segpc = "done"
    /\ variant \in InlineVariants
    /\ ~bullet_search(Txt)
    /\ HyphenHits(Txt) # {}

\* the pieces of the trimmed cell between the matches of whitespace, hyphen,
\* whitespace: a piece ends before the whitespace character in front of a
\* hyphen and the next one starts at the first non-blank character after it
RECURSIVE PiecesFrom(_)
PiecesFrom(i) ==
    LET hits == {h \in HyphenHits(Txt) : h >= i}
    IN  IF hits = {} THEN <<SubSeq(Txt, i, Len(Txt))>>
        ELSE LET h == SetMin(hits)
                 next == {j \in (h + 2)..Len(Txt) : ~IsSpace(Txt[j])}
             IN  <<SubSeq(Txt, i, h - 1)>>
                     \o (IF next = {} THEN <<<<>>>> ELSE PiecesFrom(SetMin(next)))

\* a piece without the whitespace, commas and semicolons around it
Trimmed(p) == StripChars(p, Whitespace \cup {",", ";"})

\* the fragments the inline hyphen rule is to return
HyphenFragments ==
    LET pieces == PiecesFrom(1)
    IN  SelectSeq([k \in 1..Len(pieces) |-> Trimmed(pieces[k])], LAMBDA p : p # <<>>)

\* C21: for a cell without bullet lines that holds whitespace, hyphen,
\* whitespace, _answers_from_cell splits only on that pattern, strips the
\* whitespace and the stray commas and semicolons around each fragment and
\* drops the fragments that become empty; no returned alternative is empty or
\* whitespace-only.
C21_InlineHyphenRule ==
    InlineHyphenCell =>
        /\ alts = HyphenFragments
        /\ \A k \in 1..Len(alts) : Strip(alts[k]) # <<>>

\* the same without tabs or line ends in the cell, in kemia, where the comma is
\* among the stripped characters
C21_InlineHyphenRulePlain ==
    (InlineHyphenCell /\ variant = "kemia"
        /\ \A i \in 1..Len(Txt) : Txt[i] \notin {"\t", "\n"}) =>
        /\ alts = HyphenFragments
        /\ \A k \in 1..Len(alts) : Strip(alts[k]) # <<>>

\* the rule has returned fragments that hold a semicolon and a comma
C21_Reached ==
    /\ InlineHyphenCell
    /\ Len(alts) = 2
    /\ \E i \in 1..Len(alts[1]) : alts[1][i] = ";"
    /\ \E i \in 1..Len(alts[2]) : alts[2][i] = ","

\* ------------------------------------------------------------------
\* The quiz sessions: the chemistry app (orvosi_kemai/app_kemia.py, the same
\* session code runs in orvosi_kemia/app_kemia.py), the molsejt app and the
\* biofizika app. Every user interaction reruns the script: an action is the
\* callback of the widget (if it has one) followed by the whole script run.
\* Questions are numbers; None is "None".
\* ------------------------------------------------------------------

Apps == {"kemia", "molsejt", "biofizika"}

KERDES_SZAM_KOR == 10

KUSZOB == 7

THRESHOLD == 12

PASS_MIN == 9

\* how many hidden questions the user may leave above the one they reveal
MaxSkipped == 0

\* how many questions the user marks as not correct at one time
MaxHibas == 1

\* the rounds the selector may return: lists of distinct questions
Rounds(size) == {[i \in 1..size |-> i], [i \in 1..size |-> i + 1]}

\* the themes of biofizika and the questions load_questions returns for them
SessionThemes == {"1", "2", "3"}

bio_questions(th) ==
    IF th = "1" THEN <<1, 2>>
    ELSE IF th = "2" THEN <<3, 4, 5>>
    ELSE <<>>

\* {k: False for k in ...} and {k: None for k in ...}
all_hidden(qs) == [q \in Range(qs) |-> FALSE]

all_unset(qs) == [q \in Range(qs) |-> "None"]

\* d.setdefault(q, v) for every q of qs
setdefault_all(d, qs, v) ==
    [q \in (DOMAIN d) \cup Range(qs) |-> IF q \in DOMAIN d THEN d[q] ELSE v]

\* d[k] = v
dict_put(d, k, v) == [q \in (DOMAIN d) \cup {k} |-> IF q = k THEN v ELSE d[q]]

radio_index_unset(current) == IF current = "helyes" THEN 0 ELSE 1

\* index=0 if (current is None or current == "helyes") else 1
radio_index(current) == IF current \in {"None", "helyes"} THEN 0 ELSE 1

\* "helyes" if valasztas == "Helyesnek ítélem" else "hibas"
judgment(valasztas) == IF valasztas = 0 THEN "helyes" ELSE "hibas"

\* st.radio(..., index=p, key=f"radio_{i}"): a widget that was not rendered in
\* the last run starts from index; one that was rendered keeps its value, and
\* when index differs from the value it keeps, builds that identify a widget
\* by its arguments start it from index again
radio_values(i, p, kept) == IF i \in DOMAIN kept THEN {kept[i], p} ELSE {p}

\* the question loop of one script run from position i on: the radio of a
\* question is rendered when its answer is shown (in biofizika: always), and
\* its value is stored as the judgment. Returns the possible [itel, radio].
RECURSIVE render_questions(_, _, _, _, _, _)
render_questions(qs, i, always, sa, kept, acc) ==
    IF i > Len(qs) THEN {acc}
    ELSE IF always \/ sa[qs[i]]
         THEN UNION { render_questions(qs, i + 1, always, sa, kept,
                          [itel  |-> dict_put(acc.itel, qs[i], judgment(v)),
                           radio |-> dict_put(acc.radio, i, v)])
                      : v \in radio_values(i, radio_index(acc.itel[qs[i]]), kept) }
         ELSE render_questions(qs, i + 1, always, sa, kept, acc)

\* sum(1 for k in kerdesek if itel.get(k) == "helyes")
helyes_db(qs, it) == Cardinality({i \in 1..Len(qs) : it[qs[i]] = "helyes"})

\* sum(1 for x in questions if mark.get(x) is not None)
done_db(qs, it) == Cardinality({i \in 1..Len(qs) : it[qs[i]] # "None"})

sikeres_above(helyes, kuszob) == helyes > kuszob

\* sikeres = helyes_db >= KUSZOB
sikeres(helyes, kuszob) == helyes >= kuszob

\* {"helyes_db": helyes_db, "sikeres": sikeres}
kiertet(qs, it, kuszob) ==
    [helyes_db |-> helyes_db(qs, it), sikeres |-> sikeres(helyes_db(qs, it), kuszob)]

\* {"total": total, "done": done, "good": good}
summary_of(qs, it) ==
    [total |-> Len(qs), done |-> done_db(qs, it), good |-> helyes_db(qs, it)]

\* the script run of the chemistry and molsejt apps on the session state
\* (qs, sa, it) with the radio values kept
script_run(qs, sa, it, kept) ==
    \E out \in render_questions(qs, 1, FALSE, sa, kept, [itel |-> it, radio |-> <<>>]) :
        /\ kor_kerdesei' = qs
        /\ show_answer' = sa
        /\ itel' = out.itel
        /\ radio' = out.radio

\* the user may reveal question i of the round
Revealable(qs, sa, i) ==
    /\ ~sa[qs[i]]
    /\ Cardinality({j \in 1..(i - 1) : ~sa[qs[j]]}) <= MaxSkipped

\* the user may pick the other option of the radio of question i
Selectable(it, kept, i) ==
    kept[i] = 0 => Cardinality({q \in DOMAIN it : it[q] = "hibas"}) < MaxHibas

InitQuiz ==
    /\ app \in Apps
    /\ kor_kerdesei = <<>> /\ show_answer = <<>> /\ itel = <<>>
    /\ osszegzes = <<>> /\ radio = <<>> /\ session_theme = ""
    /\ SegIdle
    /\ RoundIdle
    /\ IngestIdle
    /\ SeedIdle
    /\ ThemeIdle

notquiz == <<variant, segvars, roundvars, ingestvars, seedvars, themevars>>

\* "Új kör indítása": the callback uj_kor, then the script run. With fewer
\* than KERDES_SZAM_KOR questions in the pool valassz_kerdeseket raises before
\* anything is assigned and the session state stays as it is.
uj_kor ==
    /\ app = "kemia"
    /\ \E k \in Rounds(KERDES_SZAM_KOR) :
           script_run(k, all_hidden(k), all_unset(k), radio)
    /\ osszegzes' = <<>>
    /\ UNCHANGED <<app, session_theme, notquiz>>

\* "Teljes reset": the callback reset_minden, then the script run
reset_minden ==
    /\ app = "kemia"
    /\ script_run(<<>>, <<>>, <<>>, radio)
    /\ osszegzes' = <<>>
    /\ UNCHANGED <<app, session_theme, notquiz>>

\* molsejt: generalj() runs in the script when "Generálás" was clicked or no
\* round exists, and as the callback of "Újrakeverés"
generalj ==
    /\ app = "molsejt"
    /\ \E k \in Rounds(THRESHOLD) :
           script_run(k, all_hidden(k), all_unset(k), radio)
    /\ osszegzes' = <<>>
    /\ UNCHANGED <<app, session_theme, notquiz>>

\* molsejt: generalj() finds a file missing or the selection raises: st.stop()
\* ends the run before anything is rendered
generalj_stop ==
    /\ app = "molsejt"
    /\ radio' = <<>>
    /\ UNCHANGED <<app, kor_kerdesei, show_answer, itel, osszegzes, session_theme, notquiz>>

\* "Válasz megjelenítése" of question i: the callback sets show_answer[k],
\* then the script run
mutasd_valaszt ==
    /\ app \in {"kemia", "molsejt"}
    /\ \E i \in 1..Len(kor_kerdesei) :
           /\ Revealable(kor_kerdesei, show_answer, i)
           /\ script_run(kor_kerdesei,
                         dict_put(show_answer, kor_kerdesei[i], TRUE), itel, radio)
    /\ UNCHANGED <<app, osszegzes, session_theme, notquiz>>

\* the user picks the other option of the radio of question i, then the
\* script run
onertekeles ==
    /\ app \in {"kemia", "molsejt"}
    /\ \E i \in DOMAIN radio :
           /\ Selectable(itel, radio, i)
           /\ script_run(kor_kerdesei, show_answer, itel,
                         dict_put(radio, i, 1 - radio[i]))
    /\ UNCHANGED <<app, osszegzes, session_theme, notquiz>>

\* chemistry "Teszt kiértékelése": the script run, the summary is computed
\* after the question loop of the same run
kiertekeles ==
    /\ app = "kemia"
    /\ kor_kerdesei # <<>>
    /\ script_run(kor_kerdesei, show_answer, itel, radio)
    /\ osszegzes' = <<kiertet(kor_kerdesei', itel', KUSZOB)>>
    /\ UNCHANGED <<app, session_theme, notquiz>>

\* molsejt "Teszt kiértékelése": the callback kiertet, then the script run
kiertet_click ==
    /\ app = "molsejt"
    /\ kor_kerdesei # <<>>
    /\ osszegzes' = <<kiertet(kor_kerdesei, itel, PASS_MIN)>>
    /\ script_run(kor_kerdesei, show_answer, itel, radio)
    /\ UNCHANGED <<app, session_theme, notquiz>>

\* the script run of biofizika on the session state (th, sa, it) with the
\* radio values kept; click is the index of the clicked "show" button or 0
bio_run(th, sa, it, kept, click) ==
    /\ session_theme' = th
    /\ IF th = "" \/ bio_questions(th) = <<>>
       THEN /\ show_answer' = sa
            /\ itel' = it
            /\ radio' = <<>>
       ELSE LET qs == bio_questions(th)
                sa1 == setdefault_all(sa, qs, FALSE)
                it1 == setdefault_all(it, qs, "None")
                sa2 == IF click = 0 THEN sa1 ELSE dict_put(sa1, qs[click], TRUE)
            IN \E out \in render_questions(qs, 1, TRUE, sa2, kept,
                                           [itel |-> it1, radio |-> <<>>]) :
                   /\ show_answer' = sa2
                   /\ itel' = out.itel
                   /\ radio' = out.radio

\* biofizika "Betöltés / frissítés" with theme th selected
betoltes ==
    /\ app = "biofizika"
    /\ \E th \in SessionThemes : bio_run(th, <<>>, <<>>, radio, 0)
    /\ osszegzes' = <<>>
    /\ UNCHANGED <<app, kor_kerdesei, notquiz>>

\* biofizika "Válasz megjelenítése" of question idx
bio_show ==
    /\ app = "biofizika"
    /\ \E idx \in 1..Len(bio_questions(session_theme)) :
           /\ Revealable(bio_questions(session_theme), show_answer, idx)
           /\ bio_run(session_theme, show_answer, itel, radio, idx)
    /\ UNCHANGED <<app, kor_kerdesei, osszegzes, notquiz>>

\* biofizika: the user picks the other option of the radio eval_{idx}
bio_onertekeles ==
    /\ app = "biofizika"
    /\ \E idx \in DOMAIN radio :
           /\ Selectable(itel, radio, idx)
           /\ bio_run(session_theme, show_answer, itel,
                      dict_put(radio, idx, 1 - radio[idx]), 0)
    /\ UNCHANGED <<app, kor_kerdesei, osszegzes, notquiz>>

\* biofizika "Összesítés": the callback summarize, then the script run
summarize ==
    /\ app = "biofizika"
    /\ bio_questions(session_theme) # <<>>
    /\ osszegzes' = <<summary_of(bio_questions(session_theme), itel)>>
    /\ bio_run(session_theme, show_answer, itel, radio, 0)
    /\ UNCHANGED <<app, kor_kerdesei, notquiz>>

NextQuiz ==
    \/ uj_kor
    \/ reset_minden
    \/ generalj
    \/ generalj_stop
    \/ mutasd_valaszt
    \/ onertekeles
    \/ kiertekeles
    \/ kiertet_click
    \/ betoltes
    \/ bio_show
    \/ bio_onertekeles
    \/ summarize

SpecQuiz == InitQuiz /\ [][NextQuiz]_vars

\* ------------------------------------------------------------------
\* Properties of the quiz sessions
\* ------------------------------------------------------------------

\* the questions of the current round
CurrentRound == IF app = "biofizika" THEN bio_questions(session_theme) ELSE kor_kerdesei

\* the session state is that of a round just begun: both maps have the
\* questions of the round as keys, nothing is shown, nothing is judged, no summary
FreshRound ==
    /\ DOMAIN show_answer = Range(CurrentRound)
    /\ DOMAIN itel = Range(CurrentRound)
    /\ \A q \in DOMAIN show_answer : ~show_answer[q]
    /\ \A q \in DOMAIN itel : itel[q] = "None"
    /\ osszegzes = <<>>

\* the session state is empty: no round, empty maps, no summary
EmptySession ==
    /\ CurrentRound = <<>>
    /\ show_answer = <<>>
    /\ itel = <<>>
    /\ osszegzes = <<>>

\* C22: after "new round" (uj_kor, generalj, "Betöltés") the reveal map and the
\* judgment map have exactly the questions of the new round as keys, every flag
\* is false, every judgment is unset and the summary is cleared; after "full
\* reset" the round, both maps and the summary are empty.
C22_RoundLifecycle ==
    [][ /\ (uj_kor \/ generalj \/ betoltes) => FreshRound'
        /\ reset_minden => EmptySession' ]_vars

\* C22 for the chemistry and molsejt apps alone
C22_RoundLifecycleChem ==
    [][ /\ (uj_kor \/ generalj) => FreshRound'
        /\ reset_minden => EmptySession' ]_vars

\* a round was begun after judgments had been made in the round before
C22_Reached ==
    /\ app = "biofizika"
    /\ session_theme = "2"
    /\ \E q \in DOMAIN itel : itel[q] = "hibas"
    /\ \A q \in DOMAIN show_answer : ~show_answer[q]

\* the questions of the current round judged j
Judged(j) == {q \in Range(CurrentRound) : q \in DOMAIN itel /\ itel[q] = j}

\* an evaluation step of the chemistry or the molsejt app
Evaluation == kiertekeles \/ kiertet_click

\* C23: when the test is evaluated, the stored summary's accepted count is the
\* number of questions of the round judged "helyes" at that moment, and the
\* summary is successful exactly when that count is at least 7 (of 10, chemistry)
\* or 9 (of 12, molsejt); unset and rejected judgments do not count.
C23_PassFail ==
    [][ Evaluation =>
          /\ itel' = itel
          /\ Len(kor_kerdesei') = (IF app = "kemia" THEN 10 ELSE 12)
          /\ Len(osszegzes') = 1
          /\ osszegzes'[1].helyes_db = Cardinality(Judged("helyes"))
          /\ osszegzes'[1].helyes_db + Cardinality(Judged("hibas"))
                 + Cardinality(Judged("None")) = Len(kor_kerdesei)
          /\ osszegzes'[1].sikeres =
                 (Cardinality(Judged("helyes")) >= (IF app = "kemia" THEN 7 ELSE 9)) ]_vars

\* a summary that is still that of the judgments: exactly at the threshold,
\* with a rejected and an unset question in the round
C23_Witness ==
    /\ app \in {"kemia", "molsejt"}
    /\ Len(osszegzes) = 1
    /\ osszegzes[1].helyes_db = Cardinality(Judged("helyes"))
    /\ osszegzes[1].helyes_db = (IF app = "kemia" THEN 7 ELSE 9)
    /\ osszegzes[1].sikeres
    /\ Judged("hibas") # {}
    /\ Judged("None") # {}

\* a summary that is still that of the judgments, one below the threshold
C23_WitnessFailed ==
    /\ app \in {"kemia", "molsejt"}
    /\ Len(osszegzes) = 1
    /\ osszegzes[1].helyes_db = Cardinality(Judged("helyes"))
    /\ osszegzes[1].helyes_db = (IF app = "kemia" THEN 6 ELSE 8)
    /\ ~osszegzes[1].sikeres
    /\ Judged("hibas") # {}

\* the questions of the current round whose answer is hidden
Hidden == {q \in Range(CurrentRound) : q \in DOMAIN show_answer /\ ~show_answer[q]}

\* C24: a question's judgment is set only if its answer has been revealed in
\* the current round; a hidden question is unset and no summary counts it as
\* self-assessed.
C24_JudgmentAfterReveal ==
    /\ \A q \in Hidden : q \in DOMAIN itel => itel[q] = "None"
    /\ (app = "biofizika" /\ Len(osszegzes) = 1)
           => osszegzes[1].done <= Len(CurrentRound) - Cardinality(Hidden)

\* C24 for the chemistry and molsejt apps alone
C24_JudgmentAfterRevealChem ==
    app \in {"kemia", "molsejt"} =>
        \A q \in Hidden : q \in DOMAIN itel => itel[q] = "None"

\* hidden questions next to revealed and judged ones
C24_Reached ==
    /\ app \in {"kemia", "molsejt"}
    /\ Hidden # {}
    /\ Judged("helyes") # {}
    /\ Judged("hibas") # {}

\* C25: in every state of the chemistry session in which the summary is set,
\* its accepted count is the number of questions of the round now judged
\* "helyes" and its success flag is count >= threshold.
C25_SummaryConsistent ==
    (app = "kemia" /\ Len(osszegzes) = 1) =>
        /\ osszegzes[1].helyes_db = Cardinality(Judged("helyes"))
        /\ osszegzes[1].sikeres = (Cardinality(Judged("helyes")) >= 7)

\* the summary is only replaced by an evaluation and cleared by a new round
\* or a reset: no other step of the chemistry session touches it
C25_SummaryKept ==
    [][ (app = "kemia" /\ ~(kiertekeles \/ uj_kor \/ reset_minden))
            => osszegzes' = osszegzes ]_vars

\* a summary says "successful, 7" while 6 questions are judged "helyes"
C25_Reached ==
    /\ app = "kemia"
    /\ Len(osszegzes) = 1
    /\ osszegzes[1].sikeres
    /\ osszegzes[1].helyes_db = 7
    /\ Cardinality(Judged("helyes")) = 6

\* a step that reveals the answer of question q in the chemistry or molsejt app
Reveals(q) ==
    /\ q \in DOMAIN show_answer /\ ~show_answer[q]
    /\ q \in DOMAIN show_answer' /\ show_answer'[q]

\* a step that begins a new round or resets the session
RoundChange == uj_kor \/ generalj \/ reset_minden

\* what a step of the chemistry or molsejt session does to the judgments
JudgmentStep ==
    app \in {"kemia", "molsejt"} =>
        \A q \in DOMAIN itel :
            /\ (mutasd_valaszt /\ Reveals(q)) => itel'[q] = "helyes"
            /\ (itel[q] # "None" /\ ~RoundChange)
                   => (q \in DOMAIN itel' /\ itel'[q] # "None")

\* a revealed question has a judgment
RevealedJudged ==
    app \in {"kemia", "molsejt"} =>
        \A q \in DOMAIN show_answer : show_answer[q] => itel[q] \in {"helyes", "hibas"}

\* C26: in the chemistry and molsejt apps the script run that follows the
\* reveal of an answer records "helyes" for the question without a choice by
\* the user; its judgment is not unset again before a new round or a reset,
\* and a revealed question always counts as self-assessed.
C26_DefaultOnReveal == [][JudgmentStep]_vars /\ []RevealedJudged

\* a question was revealed and stands as "helyes" although the user has not
\* chosen anything: no other judgment was ever changed either
C26_Witness ==
    /\ app \in {"kemia", "molsejt"}
    /\ Hidden # {}
    /\ Cardinality(Judged("helyes")) >= 2
    /\ Judged("hibas") = {}
    /\ \A q \in Judged("helyes") : show_answer[q]

(***************************************************************************)
(* The shape of the keys of the chemistry ingester                         *)
(***************************************************************************)

\* extract_qnum(kerdes): re.match(r"^\s*(\d+)\.", kerdes), the digits or None
extract_qnum(kerdes) ==
    LET s1 == RunEnd(kerdes, 1, Whitespace) + 1
        d1 == RunEnd(kerdes, s1, Digits)
    IN  IF d1 >= s1 /\ d1 + 1 <= Len(kerdes) /\ kerdes[d1 + 1] = "."
        THEN Some(SubSeq(kerdes, s1, d1))
        ELSE None

\* C27: every key of the mapping qa_utils_kemia.beolvas_csv_dict returns starts
\* with its ordinal "digits." and ends with "!" (has the strict form), whichever
\* strategy produced it, so extract_qnum yields a number for every key.
C27_KeyShape ==
    (ipc = "returned" /\ variant = "kemia") =>
        \A key \in DOMAIN qa : strict_match(key) /\ extract_qnum(key).some

\* C27 on the CSV path alone
C27_KeyShapeCsv ==
    (ipc = "returned" /\ variant = "kemia" /\ strategy = "csv") =>
        \A key \in DOMAIN qa : strict_match(key) /\ extract_qnum(key).some

\* the text fallback made a key of a header line whose ordinal it dropped
C27_Reached ==
    /\ ipc = "returned" /\ variant = "kemia" /\ strategy = "text"
    /\ \E i \in 1..Len(SourceHeaders) :
           /\ HeaderKey(SourceHeaders[i]) \in DOMAIN qa
           /\ ~extract_qnum(HeaderKey(SourceHeaders[i])).some

(***************************************************************************)
(* The strict numbered-text parser                                         *)
(***************************************************************************)

\* the numbered-text parser produced the returned mapping
FromText == ipc = "returned" /\ strategy = "text" /\ variant \in FallbackVariants

\* header match i is the last one with its question text
LastOfItsText(i) ==
    \A j \in (i + 1)..Len(SourceHeaders) :
        HeaderKey(SourceHeaders[j]) # HeaderKey(SourceHeaders[i])

\* the answers the text between header match i and the next one stands for:
\* its bullets where it has some, else the whole trimmed text, if any
BlockAlternatives(i) ==
    IF bullet_search(HeaderBlock(i)) THEN answers_from_cell(variant, HeaderBlock(i))
    ELSE IF \A k \in 1..Len(HeaderBlock(i)) : HeaderBlock(i)[k] \in Whitespace THEN <<>>
    ELSE <<Strip(HeaderBlock(i))>>

\* C28: each strict header opens a question whose answers are those of the
\* text between that header and the next strict header (or the end of the
\* text); of two headers with the same question text the later block replaces
\* the earlier one, and there are as many keys as distinct question texts.
C28_StrictTextParser ==
    FromText =>
        /\ DOMAIN qa = {HeaderKey(SourceHeaders[i]) : i \in 1..Len(SourceHeaders)}
        /\ \A i \in 1..Len(SourceHeaders) :
               LastOfItsText(i) => qa[HeaderKey(SourceHeaders[i])] = BlockAlternatives(i)
        /\ Cardinality(DOMAIN qa)
               = Cardinality({Strip(SourceHeaders[i].q) : i \in 1..Len(SourceHeaders)})

\* two headers with the same question text and different answer blocks, the
\* earlier of which holds an answer
C28_Witness ==
    /\ FromText
    /\ \E i \in 1..Len(SourceHeaders) : \E j \in (i + 1)..Len(SourceHeaders) :
           /\ HeaderKey(SourceHeaders[i]) = HeaderKey(SourceHeaders[j])
           /\ LastOfItsText(j)
           /\ BlockAlternatives(i) # <<>>
           /\ BlockAlternatives(i) # BlockAlternatives(j)
           /\ qa[HeaderKey(SourceHeaders[j])] = BlockAlternatives(j)

(***************************************************************************)
(* The question list of the thematic selection                             *)
(***************************************************************************)

\* C29: the question list load_questions returns holds each question at most
\* once, and its elements are the keys of the returned answer map, also when
\* the same question text occurs in several rows.
C29_QuestionListDistinct ==
    lpc = "returned" =>
        /\ \A i \in 1..Len(question_list) : \A j \in 1..Len(question_list) :
               question_list[i] = question_list[j] => i = j
        /\ Range(question_list) = DOMAIN qa_map

\* C29, second half alone: the elements of the list are the keys of the map
C29_ListIsKeySet ==
    lpc = "returned" => Range(question_list) = DOMAIN qa_map

\* the same question text stood in two rows of the theme and was returned
C29_Reached ==
    /\ lpc = "returned"
    /\ Len(question_list) = 2
    /\ question_list[1] = question_list[2]
    /\ Cardinality(DOMAIN qa_map) = 1

(***************************************************************************)
(* Further properties of the Answer Segmenter: the lines around bullets     *)
(***************************************************************************)

\* the position of the block of bullet line i among the returned alternatives
BlockRank(i) == Cardinality({j \in NonEmptyBlockIdx : j <= i})

\* the lines of the cell ahead of its first bullet-opening line
LeadLines == SubSeq(TxtLines, 1, SetMin(BulletIdx) - 1)

\* the non-bullet lines of the block of bullet line i that are not blank
ContinuationIdx(i) == {j \in (i + 1)..BlockEnd(i) : Strip(TxtLines[j]) # <<>>}

\* C30: in a bulleted cell the lines ahead of the first bullet-opening line are
\* in no returned alternative (the result is that of the cell without them),
\* and every non-bullet line after a bullet stands in exactly one alternative,
\* that of the nearest bullet before it, at its place in the block.
C30_LinesAroundBullets ==
    (segpc = "done" /\ HasBulletLine) =>
        /\ alts = answers_from_cell(variant, JoinLines(KeptLines))
        /\ Len(alts) = Cardinality(NonEmptyBlockIdx)
        /\ \A i \in NonEmptyBlockIdx :
               /\ Len(SplitLines(alts[BlockRank(i)])) <= BlockEnd(i) - i + 1
               /\ \A j \in ContinuationIdx(i) :
                      /\ j - i + 1 <= Len(SplitLines(alts[BlockRank(i)]))
                      /\ SplitLines(alts[BlockRank(i)])[j - i + 1] = RStrip(TxtLines[j])

\* a bulleted cell with text ahead of the first bullet and a continuation line
\* after a bullet that another bullet follows
C30_Witness ==
    /\ segpc = "done" /\ HasBulletLine
    /\ \E k \in 1..Len(LeadLines) : Strip(LeadLines[k]) # <<>>
    /\ \E i \in NonEmptyBlockIdx :
           /\ ContinuationIdx(i) # {}
           /\ \E j \in BulletIdx : j > i
    /\ Len(alts) >= 2

====
